---- MODULE Spec2Model ----
(***************************************************************************)
(* Model of the iter-merge k-way merge engine (Heap over a storage of      *)
(* PeekIter slots that is reached through an array of slot pointers).      *)
(*                                                                         *)
(* A slot pointer is modelled by the index of the slot in the storage      *)
(* allocation: slots never move, so the address of a slot's item is a      *)
(* monotone function of that index.  User code that the engine calls       *)
(* (comparator, iterator destructor) may panic or, for a ByFunc            *)
(* comparator, answer arbitrarily; an engine function is therefore         *)
(* modelled as the SET of contexts it can leave behind, a context being    *)
(* the engine's fields plus the locals that survive the call.              *)
(***************************************************************************)
EXTENDS Integers, Sequences, FiniteSets, TLC

VARIABLES
    inputs,       \* the iterables handed to VecStorage::from_iter
    comparator,   \* Heap::comparator (a Chain of primary and tie breaker)
    faults,       \* what user code may do: [cmp_panics, drop_panics, next_panics]
    origin,       \* slot -> index of the input it was created from
    item,         \* slot -> PeekIter::item
    iter,         \* slot -> PeekIter::iter (the items not yet polled)
    heap,         \* BaseStorage::heap, index -> slot
    len,          \* BaseStorage::len
    initial_len,  \* InternalVecStorage::initial_len
    drops,        \* slot -> number of times the slot was destroyed
    polls,        \* slot -> number of Iterator::next calls on its iter
    out,          \* what MergeIter::next has returned so far
    unwound,      \* items destroyed while a panic unwound out of next
    ret,          \* result of the latest call of next
    vec,          \* result of MergeIter::into_vec
    phase,        \* "storage", "ready", "collected", "dropped", "aborted"
    panicked,     \* the latest operation ended by a panic
    sawNone,      \* next has returned None at least once
    assertOk,     \* no debug_assert! has failed so far
    inBounds,     \* every heap access so far was at an index < len
    holeOk,       \* every Hole::move_to so far went to a larger index < len
    dropOk,       \* no destructor so far ran on a slot that heap[0..len] referred to
    clones,       \* how many times the engine was replaced by its clone
    afterNone,    \* calls of next / next_if made after next returned None
    taken,        \* the (head, rest) pairs as_iters / as_unordered_iters yielded
    merged,       \* a MergedIter (iter.rs): peek_iters, cmp, min_idx, next_min_idx
    caller,       \* what the user of the MergedIter holds and has observed
    sized,        \* the live iterators as size_hint and count see them, and the result
    array,        \* an ArrayStorage: CAP, storage, len, the result of the last push,
                  \* the destructions it made, whether it is pinned or gone
    slice         \* a slice with a Hole in it: the data, the Hole, the positions it took

vars == <<inputs, comparator, faults, origin, item, iter, heap, len,
          initial_len, drops, polls, out, unwound, ret, vec, phase, panicked,
          sawNone, assertOk, inBounds, holeOk, dropOk, clones, afterNone, taken,
          merged, caller, sized, array, slice>>

----------------------------------------------------------------------------
(* Bounds *)

MaxInputs == 4
MaxLen == 2
MaxVal == 2
MaxItems == 6
MaxClones == 1
MaxAfterNone == 2

Vals == 1..MaxVal

RECURSIVE SeqsUpTo(_)
SeqsUpTo(n) ==
    IF n = 0 THEN {<<>>}
    ELSE LET S == SeqsUpTo(n - 1)
         IN S \cup {Append(s, v) : s \in {t \in S : Len(t) = n - 1}, v \in Vals}

RECURSIVE SumLen(_, _)
SumLen(ins, n) == IF n = 0 THEN 0 ELSE Len(ins[n]) + SumLen(ins, n - 1)

InputSets ==
    {ins \in [1..MaxInputs -> SeqsUpTo(MaxLen)] : SumLen(ins, MaxInputs) <= MaxItems}

Orderings == {"Less", "Equal", "Greater"}

None == <<>>
Some(v) == <<v>>

----------------------------------------------------------------------------
(* comparators.rs, comparators/tie_breaker.rs.  An item reference is      *)
(* [val, addr]: the item and the address it is stored at.                 *)

OrdCmp(a, b) == IF a < b THEN "Less" ELSE IF a > b THEN "Greater" ELSE "Equal"

ByOrd(a, b) == OrdCmp(a.val, b.val)

\* mutant: the operands of the address comparison are exchanged
InsertionOrder_swapped(a, b) == OrdCmp(b.addr, a.addr)

InsertionOrder(a, b) == OrdCmp(a.addr, b.addr)

\* mutant: the addresses are compared in insertion order
ReverseInsertionOrder_unreversed(a, b) == OrdCmp(a.addr, b.addr)

ReverseInsertionOrder(a, b) == OrdCmp(b.addr, a.addr)

Unspecified(a, b) == "Equal"

RECURSIVE compare(_, _, _)
compare(c, a, b) ==
    CASE c.kind = "ByOrd" -> ByOrd(a, b)
      [] c.kind = "MaxFirst" -> compare(c.inner, b, a)
      [] c.kind = "Chain" ->
            LET r == compare(c.first, a, b)
            IN IF r = "Equal" THEN compare(c.next, a, b) ELSE r
      [] c.kind = "InsertionOrder" -> InsertionOrder(a, b)
      [] c.kind = "ReverseInsertionOrder" -> ReverseInsertionOrder(a, b)
      [] c.kind = "Unspecified" -> Unspecified(a, b)

\* The answers a comparator can give: a ByFunc comparator is arbitrary user
\* code and may answer anything, on every call.
RECURSIVE answers(_, _, _)
answers(c, a, b) ==
    CASE c.kind = "ByFunc" -> Orderings
      [] c.kind = "MaxFirst" -> answers(c.inner, b, a)
      [] c.kind = "Chain" ->
            UNION {IF r = "Equal" THEN answers(c.next, a, b) ELSE {r}
                   : r \in answers(c.first, a, b)}
      [] OTHER -> {compare(c, a, b)}

Primaries == {[kind |-> "ByOrd"], [kind |-> "MaxFirst", inner |-> [kind |-> "ByOrd"]]}

TieBreakers == {[kind |-> "InsertionOrder"], [kind |-> "ReverseInsertionOrder"],
                [kind |-> "Unspecified"]}

Chain(first, next) == [kind |-> "Chain", first |-> first, next |-> next]

DefaultComparator == Chain([kind |-> "ByOrd"], [kind |-> "InsertionOrder"])

----------------------------------------------------------------------------
(* Contexts.  Cur is the engine as the caller sees it on entry to an      *)
(* operation: limit is the number of initialised heap entries, st tells   *)
(* whether a panic is unwinding, res/adv/ret carry the latest comparator  *)
(* answer, the latest PeekIter::advance result and the return value.      *)

Dangling == 0 - 1

\* An engine function takes its context by value (the argument is evaluated
\* once, before the body), as a Rust function takes self
ByValue(x, F(_)) == CHOOSE r \in {F(v) : v \in {x}} : TRUE

Cur ==
    [heap |-> heap, len |-> len, item |-> item, iter |-> iter,
     origin |-> origin, drops |-> drops, polls |-> polls, unwound |-> unwound,
     limit |-> len, st |-> "ok", res |-> "Equal", adv |-> None, ret |-> None,
     hole |-> [pos |-> 0, elt |-> Dangling],
     vec |-> <<>>, fst |-> Dangling, snd |-> Dangling, stage |-> "entry",
     assertOk |-> assertOk, inBounds |-> inBounds, holeOk |-> holeOk,
     dropOk |-> dropOk]

PtrAt(e_, idx) ==
    ByValue(e_, LAMBDA e : IF idx \in DOMAIN e.heap THEN e.heap[idx] ELSE Dangling)

ItemOf(e_, s) ==
    ByValue(e_, LAMBDA e : IF s \in DOMAIN e.item THEN e.item[s] ELSE 0)

Ref(e_, s) ==
    ByValue(e_, LAMBDA e : [val |-> ItemOf(e, s), addr |-> s])

Touch(e_, idx) ==
    ByValue(e_, LAMBDA e : [e EXCEPT !.inBounds = @ /\ idx >= 0 /\ idx < e.limit])

Check(e_, cond) ==
    ByValue(e_, LAMBDA e : [e EXCEPT !.assertOk = @ /\ cond])

WriteAt(e_, idx, p) ==
    ByValue(e_, LAMBDA e :
        IF idx \in DOMAIN e.heap THEN [Touch(e, idx) EXCEPT !.heap[idx] = p]
        ELSE Touch(e, idx))

Tagged(e_, s, v) ==
    ByValue(e_, LAMBDA e : [val |-> v, src |-> IF s \in DOMAIN e.origin THEN e.origin[s] ELSE 0])

\* A local holding an item is destroyed when a panic unwinds through its scope
Unwind(e_, s, v) ==
    ByValue(e_, LAMBDA e : [e EXCEPT !.unwound = Append(@, Tagged(e, s, v)), !.ret = None])

----------------------------------------------------------------------------
(* internal.rs: PeekIter, StorageOps *)

\* mutant: the new item is returned and the peeked one is kept (no mem::replace)
advance_no_replace(e_, s) ==
    ByValue(e_, LAMBDA e :
        LET p == [e EXCEPT !.polls[s] = @ + 1]
        IN IF e.iter[s] = <<>> THEN [p EXCEPT !.adv = None]
           ELSE [p EXCEPT !.adv = Some(Head(e.iter[s])), !.iter[s] = Tail(e.iter[s])])

\* mutant: the iterator is polled a second time
advance_polls_twice(e_, s) ==
    ByValue(e_, LAMBDA e :
        LET p == [e EXCEPT !.polls[s] = @ + 2]
        IN IF e.iter[s] = <<>> THEN [p EXCEPT !.adv = None]
           ELSE [p EXCEPT !.adv = Some(e.item[s]),
                          !.item[s] = Head(e.iter[s]),
                          !.iter[s] = Tail(e.iter[s])])

\* self.iter.next().map(|new| mem::replace(&mut self.item, new)); a next()
\* that panics has replaced nothing
\* mutant: the head is replaced before the panic of next() is raised
advance_replaces_then_panics(e_, s) ==
    ByValue(e_, LAMBDA e :
        LET p == [e EXCEPT !.polls[s] = @ + 1]
            q == IF e.iter[s] = <<>> THEN [p EXCEPT !.adv = None]
                 ELSE [p EXCEPT !.adv = Some(e.item[s]),
                                !.item[s] = Head(e.iter[s]),
                                !.iter[s] = Tail(e.iter[s])]
        IN IF <<s, p.polls[s]>> \in faults.next_panics
           THEN [q EXCEPT !.st = "panic", !.adv = None]
           ELSE q)

advance(e_, s) ==
    ByValue(e_, LAMBDA e :
        LET p == [e EXCEPT !.polls[s] = @ + 1]
        IN IF <<s, p.polls[s]>> \in faults.next_panics
           THEN [p EXCEPT !.st = "panic", !.adv = None]
           ELSE IF e.iter[s] = <<>> THEN [p EXCEPT !.adv = None]
           ELSE [p EXCEPT !.adv = Some(e.item[s]),
                          !.item[s] = Head(e.iter[s]),
                          !.iter[s] = Tail(e.iter[s])])

set_len(e_, new_len) ==
    ByValue(e_, LAMBDA e : [e EXCEPT !.len = new_len])

\* mutant: the length is decremented twice
dec_len_twice(e_) ==
    ByValue(e_, LAMBDA e : set_len(Check(e, e.len # 0), e.len - 2))

dec_len(e_) ==
    ByValue(e_, LAMBDA e : set_len(Check(e, e.len # 0), e.len - 1))

first(e_) ==
    ByValue(e_, LAMBDA e : Touch(Check(e, e.len >= 1), 0))

second(e_) ==
    ByValue(e_, LAMBDA e : Touch(Check(e, e.len >= 2), 1))

\* mutant: the last pointer is read and the length is left as it was
pop_last_keeps_len(e_) ==
    ByValue(e_, LAMBDA e : Touch(Check(e, e.len # 0), e.len - 1))

\* the pointer pop_last returns is PtrAt(e, e.len - 1) of the context before
pop_last(e_) ==
    ByValue(e_, LAMBDA e : Touch(dec_len(Check(e, e.len # 0)), e.len - 1))

\* heap[0..len] refers to slot s
Referenced(e_, s) ==
    ByValue(e_, LAMBDA e : \E i \in 0..(e.len - 1) : i \in DOMAIN e.heap /\ e.heap[i] = s)

\* a destructor of slot s starts to run
Destroy(e_, s) ==
    ByValue(e_, LAMBDA e :
        [e EXCEPT !.drops[s] = @ + 1, !.dropOk = @ /\ ~Referenced(e, s)])

\* ptr::drop_in_place of a whole PeekIter: item, then iter
drop_in_place(e_, s) ==
    ByValue(e_, LAMBDA e :
        LET d == IF s \in DOMAIN e.drops THEN Destroy(e, s) ELSE e
        IN IF s \in faults.drop_panics
           THEN [d EXCEPT !.st = IF e.st = "ok" THEN "panic" ELSE "abort"]
           ELSE d)

RECURSIVE clear_loop(_, _, _)
clear_loop(e_, i, n) ==
    ByValue(e_, LAMBDA e :
        IF i >= n \/ e.st = "abort" THEN e
        ELSE LET d == drop_in_place(Touch(e, i), PtrAt(e, i))
             IN IF d.st # e.st THEN d ELSE clear_loop(d, i + 1, n))

\* mutant: the length is set to 0 after the destructors have run
clear_len_after(e_) ==
    ByValue(e_, LAMBDA e : set_len(clear_loop(e, 0, e.len), 0))

clear(e_) ==
    ByValue(e_, LAMBDA e : clear_loop(set_len(e, 0), 0, e.len))

----------------------------------------------------------------------------
(* internal/pointers.rs *)

\* mutant: the last item is destroyed with its iterator and nothing is returned
into_last_item_none(e_, s) ==
    ByValue(e_, LAMBDA e :
        LET d == Destroy(e, s)
        IN IF s \in faults.drop_panics
           THEN Unwind([d EXCEPT !.st = "panic"], s, e.item[s])
           ELSE [d EXCEPT !.ret = None])

\* UniqueOwningPtr::into_last_item: read the item, destroy the iterator
into_last_item(e_, s) ==
    ByValue(e_, LAMBDA e :
        LET d == Destroy(e, s)
        IN IF s \in faults.drop_panics
           THEN Unwind([d EXCEPT !.st = "panic"], s, e.item[s])
           ELSE [d EXCEPT !.ret = Some(Tagged(e, s, e.item[s]))])

----------------------------------------------------------------------------
(* internal/hole.rs *)

\* mutant: the Hole keeps the first element of the slice, not the one at pos
HoleNew_reads_first(e_, pos) ==
    ByValue(e_, LAMBDA e : [Touch(e, pos) EXCEPT !.hole = [pos |-> pos, elt |-> PtrAt(e, 0)]])

HoleNew(e_, pos) ==
    ByValue(e_, LAMBDA e : [Touch(e, pos) EXCEPT !.hole = [pos |-> pos, elt |-> PtrAt(e, pos)]])

\* Hole::get(idx): the pointer read is PtrAt(e, idx)
HoleGet(e_, idx) ==
    ByValue(e_, LAMBDA e : Touch(Check(e, idx # e.hole.pos), idx))

\* mutant: the hole moves without the element at new_pos being copied up
HoleMoveTo_no_copy(e_, new_pos) ==
    ByValue(e_, LAMBDA e :
        [Touch(Check(e, new_pos # e.hole.pos), new_pos) EXCEPT
            !.hole.pos = new_pos,
            !.holeOk = @ /\ new_pos > e.hole.pos /\ new_pos < e.len])

HoleMoveTo(e_, new_pos) ==
    ByValue(e_, LAMBDA e :
        LET c == Check(e, new_pos # e.hole.pos)
            w == WriteAt(Touch(c, new_pos), c.hole.pos, PtrAt(c, new_pos))
        IN [w EXCEPT !.hole.pos = new_pos,
                     !.holeOk = @ /\ new_pos > e.hole.pos /\ new_pos < e.len])

\* mutant: the removed element is not written back when the Hole is dropped
HoleDrop_forgotten(e_) ==
    ByValue(e_, LAMBDA e : e)

HoleDrop(e_) ==
    ByValue(e_, LAMBDA e : WriteAt(e, e.hole.pos, e.hole.elt))

----------------------------------------------------------------------------
(* internal/heap.rs *)

\* Heap::cmp: every answer the comparator can give, and its panic
cmp(e_, a, b) ==
    ByValue(e_, LAMBDA e :
        LET c == Check(e, a # b)
        IN {[c EXCEPT !.res = r] : r \in answers(comparator, Ref(e, a), Ref(e, b))}
           \cup (IF faults.cmp_panics THEN {[c EXCEPT !.st = "panic"]} ELSE {}))

is_le(r) == r \in {"Less", "Equal"}

\* mutant: Ordering::is_ne in the place of Ordering::is_gt
is_ne(r) == r # "Equal"

is_gt(r) == r = "Greater"

RECURSIVE sift_loop(_, _, _)
sift_loop(e_, length, child) ==
    ByValue(e_, LAMBDA e :
        LET last_el == length - 1
        IN IF child < last_el
           THEN LET child2 == child + 1
                    g == HoleGet(HoleGet(e, child), child2)
                IN UNION {
                     IF c1.st # "ok" THEN {HoleDrop(c1)}
                     ELSE LET ch == IF is_gt(c1.res) THEN child2 ELSE child
                          IN UNION {
                               IF c2.st # "ok" THEN {HoleDrop(c2)}
                               ELSE IF is_le(c2.res) THEN {HoleDrop(c2)}
                               ELSE LET m == HoleMoveTo(c2, ch)
                                    IN sift_loop(m, length, 2 * m.hole.pos)
                               : c2 \in cmp(HoleGet(c1, ch), c1.hole.elt, PtrAt(c1, ch))}
                     : c1 \in cmp(g, PtrAt(e, child), PtrAt(e, child2))}
           ELSE IF child = last_el
           THEN UNION {
                  IF c.st # "ok" THEN {HoleDrop(c)}
                  ELSE IF is_le(c.res) THEN {HoleDrop(c)}
                  ELSE {HoleDrop(HoleMoveTo(c, child))}
                  : c \in cmp(HoleGet(e, child), e.hole.elt, PtrAt(e, child))}
           ELSE {HoleDrop(e)})

sift_down_element(e_, pos) ==
    ByValue(e_, LAMBDA e :
        LET c == Check(e, pos >= 1 /\ pos < e.len /\ e.len >= 2)
        IN sift_loop(HoleNew(c, pos), e.len, 2 * pos))

\* mutant: the subtree is not sifted after its root was replaced
sift_down_top_skipped(e_) ==
    ByValue(e_, LAMBDA e : {e})

sift_down_top(e_) ==
    ByValue(e_, LAMBDA e : sift_down_element(e, 1))

\* mutant: the entries 1.. are left in insertion order
heapify_loop_skipped(S, n) == S

RECURSIVE heapify_loop(_, _)
heapify_loop(S, n) ==
    IF n < 1 THEN S
    ELSE heapify_loop(
           UNION {IF x.st = "ok" THEN sift_down_element(x, n) ELSE {x} : x \in S},
           n - 1)

\* mutant: the first two entries are left as they are
swap_first_second_skipped(e_) ==
    ByValue(e_, LAMBDA e : e)

swap_first_second(e_) ==
    ByValue(e_, LAMBDA e :
        WriteAt(WriteAt(e, 0, PtrAt(e, 1)), 1, PtrAt(e, 0)))

\* mutant: the second entry is compared with itself
heapify_storage_self_cmp(e_) ==
    ByValue(e_, LAMBDA e :
        IF e.len <= 1 THEN {e}
        ELSE UNION {
               IF x.st # "ok" THEN {x}
               ELSE UNION {
                      IF c.st # "ok" THEN {c}
                      ELSE IF is_gt(c.res) THEN sift_down_top(swap_first_second(c))
                      ELSE {c}
                      : c \in cmp(second(first(x)), PtrAt(x, 1), PtrAt(x, 1))}
               : x \in heapify_loop({e}, e.len \div 2)})

heapify_storage(e_) ==
    ByValue(e_, LAMBDA e :
        IF e.len <= 1 THEN {e}
        ELSE UNION {
               IF x.st # "ok" THEN {x}
               ELSE UNION {
                      IF c.st # "ok" THEN {c}
                      ELSE IF is_gt(c.res) THEN sift_down_top(swap_first_second(c))
                      ELSE {c}
                      : c \in cmp(second(first(x)), PtrAt(x, 0), PtrAt(x, 1))}
               : x \in heapify_loop({e}, e.len \div 2)})

\* the item a context returns (ItemOf a dangling slot when it returns None)
Returned(e_) ==
    ByValue(e_, LAMBDA e : IF e.ret = None THEN ItemOf(e, Dangling) ELSE e.ret[1].val)

\* mutant: the head that replaced the item is returned
Returning_new_head(e_, s, v) ==
    ByValue(e_, LAMBDA e : [e EXCEPT !.ret = Some(Tagged(e, s, ItemOf(e, s)))])

Returning(e_, s, v) ==
    ByValue(e_, LAMBDA e : [e EXCEPT !.ret = Some(Tagged(e, s, v))])

pop_front_item(e_) ==
    ByValue(e_, LAMBDA e :
        CASE e.len = 2 ->
               LET f == PtrAt(e, 0)
                   s == PtrAt(e, 1)
                   a == advance(second(first(e)), f)
               IN IF a.st # "ok" THEN {a}
                  ELSE IF a.adv # None
                  THEN UNION {
                         IF c.st # "ok" THEN {Unwind(c, f, a.adv[1])}
                         ELSE IF is_gt(c.res)
                         THEN {Returning(WriteAt(WriteAt(c, 0, s), 1, f), f, a.adv[1])}
                         ELSE {Returning(c, f, a.adv[1])}
                         : c \in cmp(a, f, s)}
                  ELSE {into_last_item(WriteAt(first(set_len(a, 1)), 0, s), f)}
          [] e.len = 1 ->
               LET f == PtrAt(e, 0)
                   a == advance(first(e), f)
               IN IF a.st # "ok" THEN {a}
                  ELSE IF a.adv # None
                  THEN {Returning(a, f, a.adv[1])}
                  ELSE {into_last_item(set_len(a, 0), f)}
          [] e.len = 0 -> {[e EXCEPT !.ret = None]}
          [] OTHER ->
               LET f == PtrAt(e, 0)
                   s == PtrAt(e, 1)
                   a == advance(second(first(e)), f)
               IN IF a.st # "ok" THEN {a}
                  ELSE IF a.adv # None
                  THEN UNION {
                         IF c.st # "ok" THEN {Unwind(c, f, a.adv[1])}
                         ELSE IF is_gt(c.res)
                         THEN {IF x.st # "ok" THEN Unwind(x, f, a.adv[1])
                               ELSE Returning(x, f, a.adv[1])
                               : x \in sift_down_top(WriteAt(WriteAt(c, 0, s), 1, f))}
                         ELSE {Returning(c, f, a.adv[1])}
                         : c \in cmp(a, f, s)}
                  ELSE LET p == pop_last(a)
                           w == WriteAt(WriteAt(p, 1, PtrAt(a, a.len - 1)), 0, s)
                           l == into_last_item(w, f)
                       IN IF l.st # "ok" THEN {l}
                          ELSE {IF x.st # "ok" THEN Unwind(x, f, Returned(l)) ELSE x
                                : x \in sift_down_top(l)})

\* a PeekIter moved out of its slot: the head, the iterator, where it was
Moved(e_, s) ==
    ByValue(e_, LAMBDA e :
        [val |-> ItemOf(e, s),
         src |-> IF s \in DOMAIN e.origin THEN e.origin[s] ELSE 0,
         rest |-> IF s \in DOMAIN e.iter THEN e.iter[s] ELSE <<>>,
         addr |-> s])

\* the local item of pop_front_iter is destroyed when sift_down_top unwinds
UnwindMoved(e_, s) ==
    ByValue(e_, LAMBDA e : [drop_in_place(e, s) EXCEPT !.ret = None])

\* mutant: the last entry replaces the first one, the second stays
rotate_front_last_first(e_) ==
    ByValue(e_, LAMBDA e :
        LET a == pop_last(second(first(e)))
        IN WriteAt(a, 0, PtrAt(e, e.len - 1)))

\* first().replace(second().replace(pop_last())): the receivers are
\* evaluated before the arguments
rotate_front(e_) ==
    ByValue(e_, LAMBDA e :
        LET a == pop_last(second(first(e)))
        IN WriteAt(WriteAt(a, 1, PtrAt(e, e.len - 1)), 0, PtrAt(e, 1)))

\* mutant: with three slots the last one is put in front of the second
pop_front_iter_no_rotate(e_) ==
    ByValue(e_, LAMBDA e :
        LET f == PtrAt(e, 0)
        IN CASE e.len = 3 ->
                  {[WriteAt(pop_last(second(first(e))), 0, PtrAt(e, e.len - 1))
                       EXCEPT !.ret = Some(Moved(e, f))]}
             [] e.len = 2 ->
                  {[WriteAt(pop_last(first(e)), 0, PtrAt(e, 1))
                       EXCEPT !.ret = Some(Moved(e, f))]}
             [] e.len = 1 -> {[pop_last(e) EXCEPT !.ret = Some(Moved(e, f))]}
             [] e.len = 0 -> {[e EXCEPT !.ret = None]}
             [] OTHER ->
                  {IF x.st # "ok" THEN UnwindMoved(x, f)
                   ELSE [x EXCEPT !.ret = Some(Moved(e, f))]
                   : x \in sift_down_top(rotate_front(e))})

pop_front_iter(e_) ==
    ByValue(e_, LAMBDA e :
        LET f == PtrAt(e, 0)
        IN CASE e.len = 3 -> {[rotate_front(e) EXCEPT !.ret = Some(Moved(e, f))]}
             [] e.len = 2 ->
                  {[WriteAt(pop_last(first(e)), 0, PtrAt(e, 1))
                       EXCEPT !.ret = Some(Moved(e, f))]}
             [] e.len = 1 -> {[pop_last(e) EXCEPT !.ret = Some(Moved(e, f))]}
             [] e.len = 0 -> {[e EXCEPT !.ret = None]}
             [] OTHER ->
                  {IF x.st # "ok" THEN UnwindMoved(x, f)
                   ELSE [x EXCEPT !.ret = Some(Moved(e, f))]
                   : x \in sift_down_top(rotate_front(e))})

\* mutant: the slot in front is handed out and the length decremented
pop_last_item_front(e_) ==
    ByValue(e_, LAMBDA e :
        IF e.len = 0 THEN [e EXCEPT !.ret = None]
        ELSE LET d == dec_len(e)
             IN [Touch(d, 0) EXCEPT !.ret = Some(Moved(e, PtrAt(e, 0)))])

\* StorageOps::pop_last_item
pop_last_item(e_) ==
    ByValue(e_, LAMBDA e :
        IF e.len = 0 THEN [e EXCEPT !.ret = None]
        ELSE LET d == dec_len(e)
             IN [Touch(d, d.len) EXCEPT !.ret = Some(Moved(e, PtrAt(e, d.len)))])

\* Vec::push onto the local res of into_vec
Push(e_, s, v) ==
    ByValue(e_, LAMBDA e : [e EXCEPT !.vec = Append(@, Tagged(e, s, v))])

\* Vec::extend(iter) with the rest of an iterator: polls it until None, then
\* destroys it
Extend(e_, s) ==
    ByValue(e_, LAMBDA e :
        LET last == e.polls[s] + Len(e.iter[s]) + 1
            bad == {k \in (e.polls[s] + 1)..last : <<s, k>> \in faults.next_panics}
            stop == IF bad = {} THEN last ELSE CHOOSE k \in bad : \A j \in bad : k <= j
            got == IF bad = {} THEN Len(e.iter[s]) ELSE stop - e.polls[s] - 1
            x == [e EXCEPT
                    !.vec = @ \o [k \in 1..got |-> Tagged(e, s, e.iter[s][k])],
                    !.polls[s] = stop,
                    !.iter[s] = SubSeq(e.iter[s], got + 1, Len(e.iter[s])),
                    !.drops[s] = @ + 1,
                    !.dropOk = @ /\ ~Referenced(e, s)]
        IN IF bad # {}
           THEN [x EXCEPT !.st = IF s \in faults.drop_panics THEN "abort" ELSE "panic"]
           ELSE IF s \in faults.drop_panics THEN [x EXCEPT !.st = "panic"] ELSE x)

\* Heap::into_vec, the loop that runs while self.storage.len() >= 3:
\* one iteration, from a context whose locals first, second are fst, snd
into_vec_heap(e_) ==
    ByValue(e_, LAMBDA e :
        LET a == advance(e, e.fst)
        IN IF a.st # "ok" THEN {a}
           ELSE IF a.adv # None
           THEN UNION {
                  IF c.st # "ok" THEN {c}
                  ELSE IF is_le(c.res) THEN {c}
                  ELSE LET w == WriteAt(second(c), 1, c.fst)
                           v == WriteAt(first(w), 0, c.snd)
                       IN {IF x.st # "ok" THEN x
                           ELSE [second(x) EXCEPT !.snd = PtrAt(x, 1)]
                           : x \in sift_down_top([v EXCEPT !.fst = c.snd])}
                  : c \in cmp(Push(a, e.fst, a.adv[1]), e.fst, e.snd)}
           ELSE LET p == pop_last(second(a))
                    w == WriteAt(WriteAt(p, 1, PtrAt(a, a.len - 1)), 0, a.snd)
                    l == into_last_item([first(w) EXCEPT !.fst = a.snd], a.fst)
                IN IF l.st # "ok" THEN {l}
                   ELSE LET q == Push(l, a.fst, Returned(l))
                        IN IF q.len = 2 THEN {[q EXCEPT !.stage = "two_entry"]}
                           ELSE {IF x.st # "ok" THEN x
                                 ELSE [second(x) EXCEPT !.snd = PtrAt(x, 1)]
                                 : x \in sift_down_top(q)})

\* mutant: the locals first and second are not swapped when the order changes
into_vec_two_no_swap(e_) ==
    ByValue(e_, LAMBDA e :
        LET a == advance(e, e.fst)
        IN IF a.st # "ok" THEN {a}
           ELSE IF a.adv # None
           THEN {c : c \in cmp(Push(a, e.fst, a.adv[1]), e.fst, e.snd)}
           ELSE LET w == WriteAt(first(set_len(a, 1)), 0, a.snd)
                    l == into_last_item([w EXCEPT !.fst = a.snd], a.fst)
                IN IF l.st # "ok" THEN {l}
                   ELSE {[Push(l, a.fst, Returned(l)) EXCEPT !.stage = "one"]})

\* mutant: when the locals are swapped, the new first is written to heap[0]
into_vec_two_half_swap(e_) ==
    ByValue(e_, LAMBDA e :
        LET a == advance(e, e.fst)
        IN IF a.st # "ok" THEN {a}
           ELSE IF a.adv # None
           THEN {IF c.st # "ok" THEN c
                 ELSE IF is_gt(c.res)
                 THEN [WriteAt(c, 0, c.snd) EXCEPT !.fst = c.snd, !.snd = c.fst]
                 ELSE c
                 : c \in cmp(Push(a, e.fst, a.adv[1]), e.fst, e.snd)}
           ELSE LET w == WriteAt(first(set_len(a, 1)), 0, a.snd)
                    l == into_last_item([w EXCEPT !.fst = a.snd], a.fst)
                IN IF l.st # "ok" THEN {l}
                   ELSE {[Push(l, a.fst, Returned(l)) EXCEPT !.stage = "one"]})

\* Heap::into_vec, the while loop of the self.storage.len() == 2 block (one
\* iteration) and, once first is exhausted, what follows it in the block
into_vec_two(e_) ==
    ByValue(e_, LAMBDA e :
        LET a == advance(e, e.fst)
        IN IF a.st # "ok" THEN {a}
           ELSE IF a.adv # None
           THEN {IF c.st # "ok" THEN c
                 ELSE IF is_gt(c.res) THEN [c EXCEPT !.fst = c.snd, !.snd = c.fst]
                 ELSE c
                 : c \in cmp(Push(a, e.fst, a.adv[1]), e.fst, e.snd)}
           ELSE LET w == WriteAt(first(set_len(a, 1)), 0, a.snd)
                    l == into_last_item([w EXCEPT !.fst = a.snd], a.fst)
                IN IF l.st # "ok" THEN {l}
                   ELSE {[Push(l, a.fst, Returned(l)) EXCEPT !.stage = "one"]})

\* Heap::into_vec, the tail: the last PeekIter is read out and bulk-pushed
into_vec_one(e_) ==
    ByValue(e_, LAMBDA e :
        LET c == set_len(Check(e, e.len = 1), 0)
            x == Extend(Push(c, e.fst, e.item[e.fst]), e.fst)
        IN {[x EXCEPT !.stage = "done"]})

\* Heap::into_vec up to the first loop
into_vec_entry(e_) ==
    ByValue(e_, LAMBDA e :
        IF e.len = 0 THEN {[e EXCEPT !.stage = "done"]}
        ELSE LET f == [first(e) EXCEPT !.fst = PtrAt(e, 0)]
             IN IF e.len >= 3
                THEN {[second(f) EXCEPT !.snd = PtrAt(e, 1), !.stage = "heap"]}
                ELSE IF e.len = 2 THEN {[f EXCEPT !.stage = "two_entry"]}
                ELSE {[f EXCEPT !.stage = "one"]})

into_vec_step(e_) ==
    ByValue(e_, LAMBDA e :
        CASE e.st # "ok" \/ e.stage = "done" -> {e}
          [] e.stage = "entry" -> into_vec_entry(e)
          [] e.stage = "heap" -> into_vec_heap(e)
          [] e.stage = "two_entry" ->
                \* let mut second = UniquePtr::new(*self.storage.second())
                {[second(e) EXCEPT !.snd = PtrAt(e, 1), !.stage = "two"]}
          [] e.stage = "two" -> into_vec_two(e)
          [] e.stage = "one" -> into_vec_one(e))

RECURSIVE into_vec_run(_)
into_vec_run(S) ==
    IF \A x \in S : x.st # "ok" \/ x.stage = "done" THEN S
    ELSE into_vec_run(UNION {into_vec_step(x) : x \in S})

into_vec(e_) ==
    ByValue(e_, LAMBDA e : into_vec_run({[e EXCEPT !.stage = "entry", !.vec = <<>>]}))

\* Iterator::collect over MergeIter::next: the items that repeated
\* pop_front_item returns until it returns None
RECURSIVE collect(_, _)
collect(e_, acc) ==
    ByValue(e_, LAMBDA e :
        LET x == CHOOSE y \in pop_front_item([e EXCEPT !.limit = e.len]) : TRUE
        IN IF x.st # "ok" \/ x.ret = None THEN acc
           ELSE collect(x, Append(acc, x.ret[1])))

\* StorageOps::peek
peek(e_) ==
    ByValue(e_, LAMBDA e : IF e.len = 0 THEN None ELSE Some(ItemOf(first(e), PtrAt(e, 0))))

\* mutant: the item read is that of the last heap entry
MergeIter_peek_last(e_) ==
    ByValue(e_, LAMBDA e :
        IF e.len = 0 THEN [e EXCEPT !.ret = None]
        ELSE Returning(first(e), PtrAt(e, e.len - 1), ItemOf(e, PtrAt(e, e.len - 1))))

\* MergeIter::peek: the context after the call, ret being what it returned
MergeIter_peek(e_) ==
    ByValue(e_, LAMBDA e :
        IF peek(e) = None THEN [e EXCEPT !.ret = None]
        ELSE Returning(first(e), PtrAt(e, 0), peek(e)[1]))

----------------------------------------------------------------------------
(* storage/vec.rs *)

\* indices of the non-empty inputs, in insertion order
RECURSIVE NonEmpty(_, _)
NonEmpty(ins, n) ==
    IF n = 0 THEN <<>>
    ELSE IF ins[n] = <<>> THEN NonEmpty(ins, n - 1)
    ELSE Append(NonEmpty(ins, n - 1), n)

\* VecStorage::from_iter: one PeekIter per non-empty input (new_from_iter)
from_iter(ins) ==
    LET ne == NonEmpty(ins, Len(ins))
        n == Len(ne)
    IN [origin |-> [s \in 0..(n - 1) |-> ne[s + 1]],
        item |-> [s \in 0..(n - 1) |-> Head(ins[ne[s + 1]])],
        iter |-> [s \in 0..(n - 1) |-> Tail(ins[ne[s + 1]])]]

\* VecStorage::try_into_builder: heap[i] points to storage[i]
try_into_builder(e_) ==
    ByValue(e_, LAMBDA e :
        LET n == Cardinality(DOMAIN e.item)
        IN [e EXCEPT !.heap = [i \in 0..(n - 1) |-> i], !.len = n, !.limit = n])

\* internal/pointers.rs rebase_ptr: the same offset from another base
rebase_ptr(old_base, old_item, new_base) == new_base + (old_item - old_base)

\* 1_usize << (usize::BITS - 1), the bit that marks a rotated heap entry and
\* that no valid offset has set (usize scaled to the 31 bits of a TLC integer)
MARKER == 2 ^ 30

\* mutant: the positions are left in heap order
sort_by_ptr_skipped(e_) ==
    ByValue(e_, LAMBDA e : [n \in 0..(e.len - 1) |-> n])

\* heap.extend(0..len); heap.sort_unstable_by_key(|&pos| self.heap[pos]):
\* the positions of self.heap in the order of the pointers stored there
sort_by_ptr(e_) ==
    ByValue(e_, LAMBDA e :
        [n \in 0..(e.len - 1) |->
           CHOOSE pos \in 0..(e.len - 1) :
             Cardinality({q \in 0..(e.len - 1) : PtrAt(e, q) < PtrAt(e, pos)}) = n])

\* the inner loop of the in-place inversion:
\* pos = mem::replace(&mut heap[pos], mem::replace(&mut idx, pos) | MARKER)
RECURSIVE invert_cycle(_, _, _)
invert_cycle(h, idx, pos) ==
    LET old == h[pos]
        w == [h EXCEPT ![pos] = idx + MARKER]
    IN IF old >= MARKER THEN w ELSE invert_cycle(w, pos, old)

\* for mut idx in 0..len: entries that carry MARKER were rotated already
RECURSIVE invert_loop(_, _, _)
invert_loop(h, idx, n) ==
    IF idx >= n THEN h
    ELSE invert_loop(IF h[idx] >= MARKER THEN h ELSE invert_cycle(h, idx, h[idx]),
                     idx + 1, n)

\* InternalVecStorage::clone.  The slots of the new storage are 0..len-1.
clone(e_, init_len) ==
    ByValue(e_, LAMBDA e :
        LET n == e.len
            fresh == [s \in 0..(n - 1) |-> 0]
        IN IF n = 0
           THEN [e EXCEPT !.heap = <<>>, !.item = <<>>, !.iter = <<>>, !.origin = <<>>,
                          !.drops = <<>>, !.polls = <<>>, !.limit = 0]
           ELSE IF n = init_len
           THEN \* no holes: extend_from_slice, then rebase every heap pointer
                [e EXCEPT !.heap = [i \in 0..(n - 1) |-> rebase_ptr(0, PtrAt(e, i), 0)],
                          !.item = [s \in 0..(n - 1) |-> e.item[s]],
                          !.iter = [s \in 0..(n - 1) |-> e.iter[s]],
                          !.origin = [s \in 0..(n - 1) |-> e.origin[s]],
                          !.polls = [s \in 0..(n - 1) |-> e.polls[s]],
                          !.drops = fresh, !.limit = n]
           ELSE LET h == sort_by_ptr(e)
                    src == [s \in 0..(n - 1) |-> PtrAt(e, h[s])]
                    inv == invert_loop(h, 0, n)
                IN [e EXCEPT !.heap = [i \in 0..(n - 1) |-> inv[i] % MARKER],
                             !.item = [s \in 0..(n - 1) |-> e.item[src[s]]],
                             !.iter = [s \in 0..(n - 1) |-> e.iter[src[s]]],
                             !.origin = [s \in 0..(n - 1) |-> e.origin[src[s]]],
                             !.polls = [s \in 0..(n - 1) |-> e.polls[src[s]]],
                             !.drops = fresh, !.limit = n])

----------------------------------------------------------------------------
(* The state machine *)

NoFaults == [cmp_panics |-> FALSE, drop_panics |-> {}, next_panics |-> {}]

InitWith(ins, c, f) ==
    LET st == from_iter(ins)
    IN /\ inputs = ins
       /\ comparator = c
       /\ faults = f
       /\ origin = st.origin
       /\ item = st.item
       /\ iter = st.iter
       /\ heap = <<>>
       /\ len = 0
       /\ initial_len = 0
       /\ drops = [s \in DOMAIN st.item |-> 0]
       /\ polls = [s \in DOMAIN st.item |-> 1]
       /\ out = <<>>
       /\ unwound = <<>>
       /\ ret = None
       /\ vec = <<>>
       /\ phase = "storage"
       /\ panicked = FALSE
       /\ sawNone = FALSE
       /\ assertOk = TRUE
       /\ inBounds = TRUE
       /\ holeOk = TRUE
       /\ dropOk = TRUE
       /\ clones = 0
       /\ afterNone = 0
       /\ taken = <<>>

\* the program runs a MergeIter and holds no MergedIter
\* size_hint is not part of the run
NoSizeHint == sized = [its |-> <<>>, ret |-> None]

\* no Hole is part of the run
NoHole ==
    slice = [heap |-> <<>>, len |-> 0, limit |-> 0, hole |-> [pos |-> 0, elt |-> 0 - 1],
             assertOk |-> TRUE, inBounds |-> TRUE, holeOk |-> TRUE,
             orig |-> <<>>, path |-> <<>>, st |-> "none"]

\* no ArrayStorage is part of the run
NoArray ==
    array = [CAP |-> 0, storage |-> <<>>, len |-> 0, res |-> None, op |-> "none", arg |-> <<>>,
             drops |-> <<>>, pin |-> "unpinned"]

NoMergedIter ==
    /\ merged = [peek_iters |-> <<>>, cmp |-> "asc", min_idx |-> 0, next_min_idx |-> 1,
                 STABLE_TIE_BREAKING |-> TRUE]
    /\ caller = [iters |-> <<>>, given |-> 0, out |-> <<>>, ret |-> None, vec |-> <<>>,
                 st |-> "unused", op |-> "none", assertOk |-> TRUE, cmps |-> 0,
                 mark |-> 0, broken |-> <<>>]

\* VecStorage::from_iter(inputs).build(): the default comparator
Init ==
    /\ \E ins \in InputSets : InitWith(ins, DefaultComparator, NoFaults)
    /\ NoMergedIter /\ NoSizeHint /\ NoArray /\ NoHole

\* ...into_builder().min_by(c1).tie_breaker(c2).build()
InitCmp ==
    \E ins \in InputSets, c1 \in Primaries, c2 \in TieBreakers :
        InitWith(ins, Chain(c1, c2), NoFaults) /\ NoMergedIter /\ NoSizeHint /\ NoArray /\ NoHole

Commit(e) ==
    /\ heap' = e.heap
    /\ len' = e.len
    /\ item' = e.item
    /\ iter' = e.iter
    /\ origin' = e.origin
    /\ drops' = e.drops
    /\ polls' = e.polls
    /\ unwound' = e.unwound
    /\ assertOk' = e.assertOk
    /\ inBounds' = e.inBounds
    /\ holeOk' = e.holeOk
    /\ dropOk' = e.dropOk

\* Builder::build = Heap::new; a panic in heapify_storage unwinds through
\* Heap::new, which drops the half-built Heap and so its storage (clear)
Build ==
    /\ phase = "storage"
    /\ \E x \in heapify_storage(try_into_builder(Cur)) :
         LET y == IF x.st = "ok" THEN x ELSE clear(x)
         IN /\ Commit(y)
            /\ initial_len' = Cardinality(DOMAIN item)
            /\ phase' = IF x.st = "ok" THEN "ready"
                        ELSE IF y.st = "abort" THEN "aborted" ELSE "dropped"
            /\ panicked' = (x.st # "ok")
    /\ UNCHANGED <<inputs, comparator, faults, out, ret, vec, sawNone, clones, afterNone,
                 taken, merged, caller, sized, array, slice>>

\* one more call on an engine that has already returned None (saturating)
CountAfterNone ==
    IF sawNone /\ afterNone < MaxAfterNone THEN afterNone + 1 ELSE afterNone

\* MergeIter::next
next ==
    /\ phase = "ready"
    /\ \E x \in pop_front_item(Cur) :
         /\ Commit(x)
         /\ ret' = x.ret
         /\ out' = IF x.ret = None THEN out ELSE Append(out, x.ret[1])
         /\ sawNone' = (sawNone \/ (x.st = "ok" /\ x.ret = None))
         /\ panicked' = (x.st # "ok")
    /\ afterNone' = CountAfterNone
    /\ UNCHANGED <<inputs, comparator, faults, initial_len, vec, phase, clones,
                 taken, merged, caller, sized, array, slice>>

\* mutant: the head is taken whatever the predicate says
next_if_by_unchecked(t) ==
    /\ phase = "ready"
    /\ \E x \in pop_front_item(Cur) :
         /\ Commit(x)
         /\ ret' = x.ret
         /\ out' = IF x.ret = None THEN out ELSE Append(out, x.ret[1])
         /\ panicked' = (x.st # "ok")
    /\ afterNone' = CountAfterNone
    /\ UNCHANGED <<inputs, comparator, faults, initial_len, vec, phase, sawNone, clones,
                   taken, merged, caller, sized, array, slice>>

\* MergeIter::next_if(|el| el <= t)
next_if_by(t) ==
    /\ phase = "ready"
    /\ LET pk == peek(Cur)
       IN IF pk # None /\ pk[1] <= t
          THEN \E x \in pop_front_item(Cur) :
                 /\ Commit(x)
                 /\ ret' = x.ret
                 /\ out' = IF x.ret = None THEN out ELSE Append(out, x.ret[1])
                 /\ panicked' = (x.st # "ok")
          ELSE /\ Commit(Cur)
               /\ ret' = None
               /\ out' = out
               /\ panicked' = FALSE
    /\ afterNone' = CountAfterNone
    /\ UNCHANGED <<inputs, comparator, faults, initial_len, vec, phase, sawNone, clones,
                   taken, merged, caller, sized, array, slice>>

next_if == \E t \in Vals : next_if_by(t)

\* MergeIter::next_if_eq(&t) = next_if(|item| item == t)
next_if_eq_by(t) ==
    /\ phase = "ready"
    /\ LET pk == peek(Cur)
       IN IF pk # None /\ pk[1] = t
          THEN \E x \in pop_front_item(Cur) :
                 /\ Commit(x)
                 /\ ret' = x.ret
                 /\ out' = IF x.ret = None THEN out ELSE Append(out, x.ret[1])
                 /\ panicked' = (x.st # "ok")
          ELSE /\ Commit(Cur)
               /\ ret' = None
               /\ out' = out
               /\ panicked' = FALSE
    /\ afterNone' = CountAfterNone
    /\ UNCHANGED <<inputs, comparator, faults, initial_len, vec, phase, sawNone, clones,
                   taken, merged, caller, sized, array, slice>>

next_if_eq == \E t \in Vals : next_if_eq_by(t)

\* MergeIter::peek; ret is what the latest call returned
Peek ==
    /\ phase = "ready"
    /\ LET x == MergeIter_peek(Cur)
       IN /\ Commit(x)
          /\ ret' = x.ret
    /\ panicked' = FALSE
    /\ UNCHANGED <<inputs, comparator, faults, initial_len, out, vec, phase, sawNone,
                   clones, afterNone, taken, merged, caller, sized, array, slice>>

\* the pair a poll of as_iters / as_unordered_iters returned, with what the
\* caller knows about the poll: which iterator it polled, how many items
\* next had returned by then, and which slot was in front
Poll(x, by) ==
    IF x.ret = None \/ x.st # "ok" THEN taken
    ELSE Append(taken, [val |-> x.ret[1].val, src |-> x.ret[1].src,
                        rest |-> x.ret[1].rest, addr |-> x.ret[1].addr,
                        by |-> by, at |-> Len(out),
                        front |-> IF len > 0 THEN heap[0] ELSE Dangling])

\* one poll of MergeIter::as_iters(): ItersIter::next
AsIters ==
    /\ phase = "ready"
    /\ \E x \in pop_front_iter(Cur) :
         /\ Commit(x)
         /\ taken' = Poll(x, "as_iters")
         /\ panicked' = (x.st # "ok")
    /\ UNCHANGED <<inputs, comparator, faults, initial_len, out, ret, vec, phase, sawNone,
                   clones, afterNone, merged, caller, sized, array, slice>>

\* one poll of MergeIter::as_unordered_iters(): UnorderedItersIter::next
AsUnorderedIters ==
    /\ phase = "ready"
    /\ LET x == pop_last_item(Cur)
       IN /\ Commit(x)
          /\ taken' = Poll(x, "as_unordered_iters")
    /\ panicked' = FALSE
    /\ UNCHANGED <<inputs, comparator, faults, initial_len, out, ret, vec, phase, sawNone,
                   clones, afterNone, merged, caller, sized, array, slice>>

\* MergeIter::into_vec(self): self is destroyed when the call returns or
\* unwinds, and so is the local res when it unwinds
IntoVec ==
    /\ phase = "ready"
    /\ \E x \in into_vec(Cur) :
         LET y == clear(x)
         IN /\ Commit(y)
            /\ vec' = IF x.st = "ok" THEN x.vec ELSE <<>>
            /\ phase' = IF x.st = "ok" THEN "collected"
                        ELSE IF y.st = "abort" THEN "aborted" ELSE "dropped"
            /\ panicked' = (x.st # "ok")
    /\ UNCHANGED <<inputs, comparator, faults, initial_len, out, ret, sawNone, clones, afterNone,
                 taken, merged, caller, sized, array, slice>>

\* Drop for InternalVecStorage / InternalArrayStorage
DropEngine ==
    /\ phase = "ready"
    /\ LET y == clear(Cur)
       IN /\ Commit(y)
          /\ panicked' = (y.st # "ok")
    /\ phase' = "dropped"
    /\ UNCHANGED <<inputs, comparator, faults, initial_len, out, ret, vec, sawNone, clones, afterNone,
                 taken, merged, caller, sized, array, slice>>

\* MergeIter::clone (derived: Heap::clone, InternalVecStorage::clone); the
\* caller goes on with the clone
Clone ==
    /\ phase = "ready"
    /\ clones < MaxClones
    /\ Commit(clone(Cur, initial_len))
    /\ initial_len' = len
    /\ clones' = clones + 1
    /\ panicked' = FALSE
    /\ UNCHANGED <<inputs, comparator, faults, out, ret, vec, phase, sawNone, afterNone,
                 taken, merged, caller, sized, array, slice>>

Next == Build \/ next \/ next_if \/ IntoVec \/ DropEngine

Spec == Init /\ [][Next]_vars

NextCmp == Build \/ next \/ IntoVec

SpecCmp == InitCmp /\ [][NextCmp]_vars

\* for item in merge { .. }: the caller keeps calling next, and a call that
\* has started runs to completion (no suspension point inside the engine)
NextLive == Build \/ next

SpecLive == Init /\ [][NextLive]_vars /\ WF_vars(Build) /\ WF_vars(next)

NextClone == Build \/ next \/ Clone

SpecClone == Init /\ [][NextClone]_vars

\* ...into_builder().min_by_func(panicky_cmp).build(): a comparator that
\* orders as the default one does and may panic on any call
CmpPanics == [cmp_panics |-> TRUE, drop_panics |-> {}, next_panics |-> {}]

InitCmpPanic ==
    /\ \E ins \in InputSets : InitWith(ins, DefaultComparator, CmpPanics)
    /\ NoMergedIter /\ NoSizeHint /\ NoArray /\ NoHole

SpecCmpPanic == InitCmpPanic /\ [][Next]_vars

\* VecStorage::from_iter(make_iter(panic_at)).build(): the destructor of the
\* iterator in one slot panics (PanickyDropIter)
InitDropPanic ==
    \E ins \in InputSets, s \in 0..(MaxInputs - 1) :
        /\ s \in DOMAIN from_iter(ins).item
        /\ InitWith(ins, DefaultComparator, [cmp_panics |-> FALSE, drop_panics |-> {s}, next_panics |-> {}])
        /\ NoMergedIter /\ NoSizeHint /\ NoArray /\ NoHole

SpecDropPanic == InitDropPanic /\ [][Next]_vars

\* The inputs of an engine whose comparator does not look at the items: an
\* item only tells its position in its input
PositionInputs ==
    {ins \in InputSets :
       \A i \in DOMAIN ins : \A k \in DOMAIN ins[i] : ins[i][k] = ((k - 1) % MaxVal) + 1}

\* ...into_builder().min_by_func(f).tie_breaker(Unspecified).build() where f
\* is arbitrary user code: it may return any Ordering on each call
InitByFunc ==
    \E ins \in PositionInputs :
        InitWith(ins, Chain([kind |-> "ByFunc"], [kind |-> "Unspecified"]), NoFaults)
        /\ NoMergedIter /\ NoSizeHint /\ NoArray /\ NoHole

SpecByFunc == InitByFunc /\ [][Next]_vars

\* a caller that also takes whole inputs back, smallest head first
NextIters == Build \/ next \/ AsIters

\* ...into_builder().min_by(c1).build(): either primary order, the default
\* tie breaker
InitIters ==
    /\ \E ins \in InputSets, c1 \in Primaries :
         InitWith(ins, Chain(c1, [kind |-> "InsertionOrder"]), NoFaults)
    /\ NoMergedIter /\ NoSizeHint /\ NoArray /\ NoHole

SpecIters == InitIters /\ [][NextIters]_vars

\* a caller that also takes whole inputs back, in no particular order
NextUnordered == Build \/ next \/ AsUnorderedIters

SpecUnordered == InitIters /\ [][NextUnordered]_vars

\* a caller that looks before it takes
NextPeek == Build \/ next \/ Peek

SpecPeek == Init /\ [][NextPeek]_vars

\* a caller that takes the head only if it likes it
NextNextIf == Build \/ next \/ next_if \/ next_if_eq

\* VecStorage::from_iter(inputs).build() over inputs of which the last one is
\* empty: an engine of at most MaxInputs - 1 slots
InitNextIf ==
    /\ \E ins \in InputSets :
         ins[MaxInputs] = <<>> /\ InitWith(ins, DefaultComparator, NoFaults)
    /\ NoMergedIter /\ NoSizeHint /\ NoArray /\ NoHole

SpecNextIf == InitNextIf /\ [][NextNextIf]_vars

----------------------------------------------------------------------------
(* What the caller can tell from the inputs it passed and the items it got *)

FromInput(seq, i) ==
    LET sel == SelectSeq(seq, LAMBDA r : r.src = i)
    IN [k \in 1..Len(sel) |-> sel[k].val]

Emitted(i) == Len(FromInput(out, i))

LiveInputs == {i \in DOMAIN inputs : Emitted(i) < Len(inputs[i])}

HeadRef(i) == [val |-> inputs[i][Emitted(i) + 1], addr |-> i]

Total == SumLen(inputs, Len(inputs))

Unsorted(q) == \E k \in 1..(Len(q) - 1) : q[k] > q[k + 1]

\* C1: local minimality.  Whenever next() returns a value v, v is the head of
\* a live input and, under the engine's comparator C = Chain(C1, C2),
\* C(v, h) is Less or Equal for the head h of every input live at that moment
\* (inputs sorted or not, C1 in {ByOrd, MaxFirst(ByOrd)}, C2 any tie breaker).
C1_LocalMinimality ==
    [][out' # out =>
         LET v == out'[Len(out')]
             r == [val |-> v.val, addr |-> v.src]
         IN /\ Len(out') = Len(out) + 1
            /\ v.src \in LiveInputs
            /\ v.val = HeadRef(v.src).val
            /\ \A i \in LiveInputs : is_le(compare(comparator, r, HeadRef(i)))]_vars

C1_Witness ==
    /\ phase = "ready"
    /\ Len(out) >= 3
    /\ len >= 3
    /\ comparator.first.kind = "MaxFirst"
    /\ comparator.next.kind = "ReverseInsertionOrder"
    /\ \E i \in DOMAIN inputs : Unsorted(inputs[i])

\* C2: permutation.  Once repeated next() has returned None, the returned
\* sequence is an interleaving of the inputs: the items that came from input
\* i are exactly inputs[i], in their original order, and nothing else was
\* returned (so the multiset of outputs is the multiset-union of the inputs).
C2_Permutation ==
    sawNone =>
        /\ \A k \in 1..Len(out) : out[k].src \in DOMAIN inputs
        /\ \A i \in DOMAIN inputs : FromInput(out, i) = inputs[i]
        /\ Len(out) = Total

C2_Witness ==
    /\ sawNone
    /\ Len(out) >= 5
    /\ \E i \in DOMAIN inputs : inputs[i] = <<>>
    /\ \E i \in DOMAIN inputs : Unsorted(inputs[i])

\* C3: stable tie-break.  With the default Chain(ByOrd, InsertionOrder),
\* whenever next() returns a value and several live inputs have heads equal to
\* it under the primary comparator, the value comes from the earliest-inserted
\* of those inputs.
C3_StableTieBreak ==
    [][(comparator = DefaultComparator /\ out' # out) =>
         LET v == out'[Len(out')]
         IN \A i \in LiveInputs :
              ByOrd(HeadRef(i), [val |-> v.val, addr |-> v.src]) = "Equal" => v.src <= i]_vars

C3_Witness ==
    /\ comparator = DefaultComparator
    /\ phase = "ready"
    /\ Len(out) >= 3
    /\ \A k \in 1..3 : out[k].val = out[1].val
    /\ out[1].src = 2 /\ out[2].src = 2 /\ out[3].src = 3
    /\ Cardinality({i \in LiveInputs : HeadRef(i).val = 2}) >= 2

LiveSlots == {heap[i] : i \in 0..(len - 1)}

\* C4: comparator panic safety.  Whichever comparator calls panic (during
\* build/heapify, next or into_vec), the panic unwinds to the caller without a
\* second panic, no slot is ever destroyed twice, the engine keeps reaching
\* every not yet destroyed slot exactly once, and once the engine has been
\* dropped (or consumed by into_vec) every inserted slot has had its
\* destructor run exactly once.
C4_CmpPanicSafety ==
    /\ phase # "aborted"
    /\ \A s \in DOMAIN drops : drops[s] <= 1
    /\ phase = "ready" =>
         /\ Cardinality(LiveSlots) = len
         /\ LiveSlots = {s \in DOMAIN drops : drops[s] = 0}
    /\ phase \in {"dropped", "collected"} => \A s \in DOMAIN drops : drops[s] = 1

C4_Witness ==
    /\ faults.cmp_panics
    /\ phase = "dropped"
    /\ panicked
    /\ unwound # <<>>
    /\ out # <<>>
    /\ Cardinality(DOMAIN drops) >= 3
    /\ \E i \in DOMAIN heap : heap[i] # i
    /\ \A s \in DOMAIN drops : drops[s] = 1

\* C5: destructor panic during engine drop.  When an engine that holds
\* several live slots is dropped and the destructor of one of them panics,
\* every slot that was live has nevertheless been destroyed exactly once.
C5_DropPanicDropsRest ==
    [][(phase = "ready" /\ len >= 2 /\ phase' = "dropped" /\ panicked') =>
         \A s \in LiveSlots : drops'[s] = 1]_vars

\* C6: misbehaving comparator.  With a comparator that may return any
\* Ordering on every call, every heap access of every operation is at an
\* index < len and no debug assertion fails, no slot is destroyed twice, the
\* heap keeps every live slot exactly once, and the items returned by next()
\* until None (or by next() and then into_vec()) are, input by input, exactly
\* the input's items in order, every slot having been destroyed exactly once.
C6_MisbehavingComparator ==
    /\ inBounds
    /\ assertOk
    /\ \A s \in DOMAIN drops : drops[s] <= 1
    /\ phase = "ready" =>
         /\ Cardinality(LiveSlots) = len
         /\ LiveSlots = {s \in DOMAIN drops : drops[s] = 0}
    /\ sawNone =>
         /\ \A i \in DOMAIN inputs : FromInput(out, i) = inputs[i]
         /\ Len(out) = Total
         /\ \A s \in DOMAIN drops : drops[s] = 1
    /\ phase = "collected" =>
         /\ \A i \in DOMAIN inputs : FromInput(out \o vec, i) = inputs[i]
         /\ Len(out) + Len(vec) = Total
         /\ \A s \in DOMAIN drops : drops[s] = 1

C6_Witness ==
    /\ comparator.first.kind = "ByFunc"
    /\ sawNone
    /\ Len(out) >= 5
    /\ initial_len >= 3
    /\ \E k \in 1..(Len(out) - 1) : out[k].val > out[k + 1].val
    /\ ret = None

\* C7: round trip.  For every input set and each of the six comparator and
\* tie-breaker configurations, into_vec() returns exactly the sequence (same
\* items, from the same inputs, in the same order) that collecting repeated
\* next() on an engine in the same state returns.
C7_IntoVecRoundTrip ==
    [][(phase = "ready" /\ phase' = "collected") => vec' = collect(Cur, <<>>)]_vars

C7_Witness ==
    /\ phase = "collected"
    /\ out = <<>>
    /\ initial_len = 4
    /\ Len(vec) = 6
    /\ vec[5].src = vec[6].src
    /\ comparator.first.kind = "MaxFirst"
    /\ comparator.next.kind = "Unspecified"
    /\ \E i \in DOMAIN inputs : Unsorted(inputs[i])

\* C8: clone equivalence.  Cloning a VecStorage-backed engine after any
\* number of next() calls yields an engine from which repeated next() returns
\* exactly the sequence the original returns from that point on, item by item
\* from the same inputs (so with the same tie-break decisions), whether no
\* slot is gone yet (len = initial_len) or some are (holes).
C8_CloneEquivalence ==
    [][clones' # clones => collect(Cur', <<>>) = collect(Cur, <<>>)]_vars

C8_Witness ==
    /\ clones >= 1
    /\ sawNone
    /\ Len(out) = Total
    /\ Cardinality(DOMAIN item) = 3
    /\ Cardinality({i \in DOMAIN inputs : inputs[i] # <<>>}) = 4
    /\ \E i \in DOMAIN heap : heap[i] # i
    /\ \E k \in 1..(Len(out) - 1) : out[k].val = out[k + 1].val /\ out[k].src < out[k + 1].src

\* C9: fusion.  Once next() has returned None, every later call of next()
\* or next_if() returns None and emits nothing, and peek() reports absence.
C9_Fusion ==
    [][sawNone => (ret' = None /\ out' = out /\ peek(Cur') = None)]_vars

C9_Witness ==
    /\ sawNone
    /\ afterNone >= 2
    /\ ret = None
    /\ phase = "ready"
    /\ Len(out) >= 5
    /\ peek(Cur) = None

\* C10: termination.  With finite inputs and a comparator that always
\* returns, every move of a sift-down's hole goes to a strictly larger index
\* inside the array, and a caller that keeps calling next() is eventually
\* returned None, after exactly as many items as the inputs hold.
C10_Termination ==
    /\ []holeOk
    /\ [](sawNone => Len(out) = Total)
    /\ <>sawNone

C10_Witness ==
    /\ sawNone
    /\ holeOk
    /\ Total = MaxItems
    /\ Len(out) = Total
    /\ initial_len = 4
    /\ \E i \in DOMAIN heap : heap[i] # i

\* C13: peek.  MergeIter::peek() returns None exactly when no input is live
\* (the engine holds no slot); otherwise it returns the head of the slot at
\* heap[0], and that is what a next() called in the same state returns.  peek
\* changes neither len, the heap, any head nor any iterator, polls nothing,
\* and reads no heap entry at or beyond len.
C13_Peek ==
    [][/\ Peek =>
            /\ (ret' = None) <=> (LiveInputs = {})
            /\ (ret' = None) <=> (len = 0)
            /\ ret' # None => ret'[1] = [val |-> item[heap[0]], src |-> origin[heap[0]]]
            /\ UNCHANGED <<heap, len, item, iter, origin, polls, drops, out>>
            /\ inBounds' /\ assertOk'
       /\ (phase = "ready" /\ next) => ret' = MergeIter_peek(Cur).ret]_vars

\* peek() has shown the head of an engine with three or more slots after two
\* or more items were taken, and that head is not the item taken last
C13_Witness ==
    /\ phase = "ready"
    /\ len >= 3
    /\ Len(out) >= 2
    /\ ret # None
    /\ ret[1] # out[Len(out)]
    /\ ret[1].val = item[heap[0]]

\* the live inputs whose head no live head precedes under the comparator
MinLive ==
    {i \in LiveInputs :
       \A j \in LiveInputs : compare(comparator, HeadRef(i), HeadRef(j)) # "Greater"}

\* what a next_if whose predicate holds (engine not empty, predicate true on
\* the head) or does not hold must have done in this step
NextIfOutcome(holds) ==
    IF holds
    THEN /\ ret' # None
         /\ ret' = MergeIter_peek(Cur).ret
         /\ ret'[1].src \in MinLive
         /\ ret'[1].val = HeadRef(ret'[1].src).val
         /\ out' = Append(out, ret'[1])
         /\ \E x \in pop_front_item(Cur) :
              <<x.heap, x.len, x.item, x.iter, x.polls>> = <<heap', len', item', iter', polls'>>
    ELSE /\ ret' = None
         /\ UNCHANGED <<heap, len, item, iter, origin, polls, drops, out>>
         /\ MergeIter_peek(Cur).ret = MergeIter_peek(Cur)'.ret

\* C14: next_if / next_if_eq.  If the engine is empty or the predicate is
\* false on the head, the call returns None, polls no input and leaves len,
\* the heap and all heads as they were, so that peek() and the next next()
\* still see the same head; if the predicate is true the call returns the
\* head peek() showed, a minimal live head, and advances as next() does.
C14_NextIf ==
    [][\A t \in Vals :
         /\ next_if_by(t) =>
              NextIfOutcome(\E i \in MinLive : HeadRef(i).val <= t)
         /\ next_if_eq_by(t) =>
              NextIfOutcome(\E i \in MinLive : HeadRef(i).val = t)]_vars

\* a leading run of equal items from two inputs was taken and a call then
\* returned None although a greater head is live
C14_Witness ==
    /\ phase = "ready"
    /\ ret = None
    /\ len >= 2
    /\ Len(out) >= 2
    /\ out[Len(out)].val = out[Len(out) - 1].val
    /\ out[Len(out)].src # out[Len(out) - 1].src
    /\ item[heap[0]] > out[Len(out)].val

\* a reference to the head of a slot
SlotRef(s) == [val |-> item[s], addr |-> s]

SlotLe(s, t) == compare(comparator, SlotRef(s), SlotRef(t)) # "Greater"

\* no live slot has a head that precedes the one in front
FrontIsMin == \A i \in 0..(len - 1) : SlotLe(heap[0], heap[i])

\* heap[0] precedes heap[1], the root of a binary heap in which the children
\* of index i are at 2i and 2i + 1
HeapOrdered ==
    /\ len >= 2 => SlotLe(heap[0], heap[1])
    /\ \A i \in 2..(len - 1) : SlotLe(heap[i \div 2], heap[i])

\* the heap entries below len are distinct slots that were neither destroyed
\* nor handed out
Bijection ==
    /\ \A i, j \in 0..(len - 1) : heap[i] = heap[j] => i = j
    /\ \A i \in 0..(len - 1) :
         /\ heap[i] \in DOMAIN item /\ drops[heap[i]] = 0
         /\ \A k \in 1..Len(taken) : taken[k].addr # heap[i]

\* this step is a poll of the named iterator that returned a pair
Polled(by) ==
    /\ Len(taken') = Len(taken) + 1
    /\ taken'[Len(taken')].by = by

\* the pair is the PeekIter of slot s as it was before the step
PairOf(p, s) ==
    /\ p.addr = s /\ p.val = item[s] /\ p.rest = iter[s] /\ p.src = origin[s]

\* what next() returned in this step is the head of the slot in front
ServesFront ==
    out' # out =>
        /\ out'[Len(out')].val = item[heap[0]]
        /\ out'[Len(out')].src = origin[heap[0]]

\* polls k and k + 1 came one right after the other from the named iterator
Successive(k, by) ==
    /\ taken[k].by = by /\ taken[k + 1].by = by
    /\ taken[k].at = taken[k + 1].at

\* C17: as_iters.  Every poll of as_iters() yields the (head, rest) pair of
\* the slot in front, whose head precedes or equals every live head under the
\* engine's comparator, so successive polls yield heads in non-decreasing
\* order; after any number of polls the engine holds the other slots, the
\* slot in front has a minimal head, and next() returns that head.
C17_AsIters ==
    [][/\ Polled("as_iters") =>
            /\ PairOf(taken'[Len(taken')], heap[0])
            /\ FrontIsMin
            /\ len' = len - 1
            /\ {heap'[i] : i \in 0..(len' - 1)} = LiveSlots \ {heap[0]}
            /\ item' = item /\ iter' = iter /\ polls' = polls /\ drops' = drops
       /\ phase' = "ready" => (FrontIsMin /\ HeapOrdered /\ Bijection)'
       /\ inBounds' /\ assertOk'
       /\ ServesFront
       /\ (\A k \in 1..(Len(taken) - 1) :
              Successive(k, "as_iters") =>
                  compare(comparator, [val |-> taken[k].val, addr |-> taken[k].addr],
                          [val |-> taken[k + 1].val, addr |-> taken[k + 1].addr])
                      # "Greater")']_vars

\* an engine of four slots was polled twice in a row through as_iters() and
\* next() has returned an item since
C17_Witness ==
    /\ phase = "ready"
    /\ initial_len = 4
    /\ Len(taken) = 2
    /\ Successive(1, "as_iters")
    /\ taken[1].val # taken[2].val
    /\ Len(out) > taken[2].at
    /\ len >= 1

\* C18: as_unordered_iters.  Every poll hands out exactly the slot that
\* heap[len - 1] refers to and decrements len; no heap entry, head or
\* iterator is touched, so the remaining prefix keeps distinct live slots in
\* heap order and next() keeps returning the head in front, a minimal one;
\* the slot in front stays in front from poll to poll and is the one the
\* poll that empties the engine yields.
C18_AsUnorderedIters ==
    [][/\ Polled("as_unordered_iters") =>
            /\ PairOf(taken'[Len(taken')], heap[len - 1])
            /\ len' = len - 1
            /\ heap' = heap
            /\ item' = item /\ iter' = iter /\ polls' = polls /\ drops' = drops
            /\ (FrontIsMin /\ HeapOrdered /\ Bijection)'
            /\ inBounds' /\ assertOk'
            /\ len' = 0 => taken'[Len(taken')].addr = taken'[Len(taken')].front
       /\ ServesFront /\ (out' # out => FrontIsMin)
       /\ (\A k \in 1..(Len(taken) - 1) :
              Successive(k, "as_unordered_iters") => taken[k].front = taken[k + 1].front)'
      ]_vars

\* an engine of four slots was drained by four polls of as_unordered_iters()
\* in a row; the first pair was not the one in front, the last one was
C18_Witness ==
    /\ phase = "ready"
    /\ len = 0
    /\ Len(taken) = 4
    /\ \A k \in 1..3 : Successive(k, "as_unordered_iters")
    /\ taken[1].addr # taken[1].front
    /\ taken[4].addr = taken[1].front

----------------------------------------------------------------------------
(* iter.rs: MergedIter, the engine that keeps in min_idx and next_min_idx  *)
(* the positions of the smallest and the second smallest head in a storage *)
(* of (head, iterator) pairs.  Positions are those of the source (from 0). *)
(* A context m is the struct's fields, its STABLE_TIE_BREAKING parameter   *)
(* and what survives a call: res, ret, vec, assertOk, and st, which is     *)
(* "ok" until the storage is used at an index >= len ("oob").              *)

MaxIters == 3
MaxCmps == 1

MergedInputs == [1..MaxIters -> SeqsUpTo(MaxLen)]

\* Cmp: Ord::cmp ("asc"), or with_cmp(|a, b| b.cmp(a)) ("desc")
Cmps == {"asc", "desc"}

call_cmp(c, a, b) ==
    IF c = "asc" THEN OrdCmp(a.val, b.val) ELSE OrdCmp(b.val, a.val)

\* an input as an iterator: where it comes from and what it still yields
IntoIter(ins, i) == [src |-> i, rest |-> ins[i]]

\* Iterator::next of an input: the item (tagged with its input) and the
\* iterator afterwards
iter_next(it) ==
    IF it.rest = <<>> THEN [item |-> None, iter |-> it]
    ELSE [item |-> Some([val |-> Head(it.rest), src |-> it.src]),
          iter |-> [it EXCEPT !.rest = Tail(@)]]

RECURSIVE drain(_)
\* Vec::extend(iter): every item the iterator still yields
drain(it) ==
    LET nx == iter_next(it)
    IN IF nx.item = None THEN <<>> ELSE <<nx.item[1]>> \o drain(nx.iter)

NoItem == [val |-> 0, src |-> 0]

MCtx(s) ==
    [peek_iters |-> s.peek_iters, cmp |-> s.cmp, min_idx |-> s.min_idx,
     next_min_idx |-> s.next_min_idx, STABLE_TIE_BREAKING |-> s.STABLE_TIE_BREAKING,
     st |-> "ok", res |-> NoItem, ret |-> None, vec |-> <<>>, assertOk |-> TRUE]

MLen(m) == Len(m.peek_iters)

\* Storage::get / get_mut at an index < len
get(m, index) == m.peek_iters[index + 1]

\* Storage::get, get_mut, remove, swap_remove at an index >= len: a panic
\* where the access is checked, undefined behaviour where it is not
Oob(m) == [m EXCEPT !.st = "oob"]

debug_assert(m, cond) == IF cond THEN m ELSE [m EXCEPT !.assertOk = FALSE]

push(m, value) == [m EXCEPT !.peek_iters = Append(@, value)]

remove(s, index) == SubSeq(s, 1, index) \o SubSeq(s, index + 2, Len(s))

swap_remove(s, index) ==
    [i \in 1..(Len(s) - 1) |-> IF i = index + 1 THEN s[Len(s)] ELSE s[i]]

MergedIter_new(c, stable) ==
    MCtx([peek_iters |-> <<>>, cmp |-> c, min_idx |-> 0, next_min_idx |-> 1,
          STABLE_TIE_BREAKING |-> stable])

cmp_idx(m, idx_a, idx_b) ==
    IF idx_a < MLen(m) /\ idx_b < MLen(m)
    THEN call_cmp(m.cmp, get(m, idx_a)[1], get(m, idx_b)[1])
    ELSE "OutOfBounds"

pop_min(m) ==
    IF m.st # "ok" THEN m
    ELSE IF m.min_idx >= MLen(m) THEN Oob(m)
    ELSE IF m.STABLE_TIE_BREAKING
    THEN [m EXCEPT !.res = get(m, m.min_idx)[1],
                   !.peek_iters = remove(@, m.min_idx),
                   !.min_idx = IF m.next_min_idx > m.min_idx
                               THEN m.next_min_idx - 1 ELSE m.next_min_idx]
    ELSE LET rest == swap_remove(m.peek_iters, m.min_idx)
         IN [m EXCEPT !.res = get(m, m.min_idx)[1],
                      !.peek_iters = rest,
                      !.min_idx = IF m.next_min_idx # Len(rest)
                                  THEN m.next_min_idx ELSE @]

RECURSIVE find_loop(_, _, _)
\* for i in i..hi { if cmp_idx(i, next_min_idx).is_lt() { next_min_idx = i } }
find_loop(m, i, hi) ==
    IF m.st # "ok" \/ i >= hi THEN m
    ELSE LET c == cmp_idx(m, i, m.next_min_idx)
         IN IF c = "OutOfBounds" THEN Oob(m)
            ELSE find_loop(IF c = "Less" THEN [m EXCEPT !.next_min_idx = i] ELSE m,
                           i + 1, hi)

find_next_min(m) ==
    IF m.st # "ok" THEN m
    ELSE LET m0 == [m EXCEPT !.next_min_idx = IF m.min_idx = 0 THEN 1 ELSE 0]
             m1 == find_loop(m0, m0.next_min_idx + 1, m.min_idx)
         IN find_loop(m1, m.min_idx + 1, MLen(m))

RECURSIVE recheck_loop(_, _, _)
\* for i in i..hi { if cmp_idx(i, min_idx).is_eq() { next_min_idx = i; break } }
recheck_loop(m, i, hi) ==
    IF i >= hi THEN m
    ELSE LET c == cmp_idx(m, i, m.min_idx)
         IN IF c = "OutOfBounds" THEN Oob(m)
            ELSE IF c = "Equal" THEN [m EXCEPT !.next_min_idx = i]
            ELSE recheck_loop(m, i + 1, hi)

\* mutant: after the exchange the slots in between are not looked at again
update_after_peek_no_recheck(m) ==
    IF m.st # "ok" THEN m
    ELSE LET a == debug_assert(m, MLen(m) >= 2)
             c == cmp_idx(a, a.min_idx, a.next_min_idx)
         IN CASE c = "OutOfBounds" -> Oob(a)
              [] c = "Equal" /\ a.STABLE_TIE_BREAKING /\ a.next_min_idx < a.min_idx ->
                    [a EXCEPT !.min_idx = a.next_min_idx, !.next_min_idx = a.min_idx]
              [] c = "Greater" -> find_next_min([a EXCEPT !.min_idx = a.next_min_idx])
              [] OTHER -> a

update_after_peek(m) ==
    IF m.st # "ok" THEN m
    ELSE LET a == debug_assert(m, MLen(m) >= 2)
             c == cmp_idx(a, a.min_idx, a.next_min_idx)
         IN CASE c = "OutOfBounds" -> Oob(a)
              [] c = "Equal" /\ a.STABLE_TIE_BREAKING /\ a.next_min_idx < a.min_idx ->
                    LET s == [a EXCEPT !.min_idx = a.next_min_idx,
                                       !.next_min_idx = a.min_idx]
                    IN recheck_loop(s, s.min_idx + 1, s.next_min_idx)
              [] c = "Greater" -> find_next_min([a EXCEPT !.min_idx = a.next_min_idx])
              [] OTHER -> a

produce_next(m) ==
    LET a == debug_assert(m, MLen(m) >= 1)
    IN IF a.min_idx >= MLen(a) THEN Oob(a)
       ELSE LET smallest == get(a, a.min_idx)
                nx == iter_next(smallest[2])
            IN IF nx.item # None
               THEN LET b == [a EXCEPT !.res = smallest[1],
                                       !.peek_iters[a.min_idx + 1] = <<nx.item[1], nx.iter>>]
                    IN IF MLen(b) > 1 THEN update_after_peek(b) ELSE b
               ELSE find_next_min(pop_min(a))

upd_idx_n(m, new_item_idx) ==
    IF m.st # "ok" THEN m
    ELSE LET a == debug_assert(m, MLen(m) > 2)
             c == cmp_idx(a, new_item_idx, a.next_min_idx)
             d == cmp_idx(a, new_item_idx, a.min_idx)
         IN IF c = "OutOfBounds" THEN Oob(a)
            ELSE IF c \in {"Greater", "Equal"} THEN a
            ELSE IF d = "OutOfBounds" THEN Oob(a)
            ELSE IF d = "Less"
            THEN [a EXCEPT !.next_min_idx = a.min_idx, !.min_idx = new_item_idx]
            ELSE [a EXCEPT !.next_min_idx = new_item_idx]

upd_idx_2(m) ==
    IF m.st # "ok" THEN m
    ELSE LET a == debug_assert(m, MLen(m) >= 2)
             c == cmp_idx(a, 0, 1)
         IN IF c = "OutOfBounds" THEN Oob(a)
            ELSE IF c \in {"Less", "Equal"}
            THEN [a EXCEPT !.min_idx = 0, !.next_min_idx = 1]
            ELSE [a EXCEPT !.min_idx = 1, !.next_min_idx = 0]

add_iter(m, new_iter) ==
    LET nx == iter_next(new_iter)
        new_item_idx == MLen(m)
        a == push(m, <<nx.item[1], nx.iter>>)
    IN IF nx.item = None THEN m
       ELSE CASE new_item_idx = 0 -> a
              [] new_item_idx = 1 -> upd_idx_2(a)
              [] OTHER -> upd_idx_n(a, new_item_idx)

RECURSIVE filter_map(_)
\* iters.filter_map(|iter| iter.next().map(|peeked| (peeked, iter)))
filter_map(iters) ==
    IF iters = <<>> THEN <<>>
    ELSE LET nx == iter_next(Head(iters))
         IN (IF nx.item = None THEN <<>> ELSE << <<nx.item[1], nx.iter>> >>)
            \o filter_map(Tail(iters))

RECURSIVE add_rest(_, _)
\* for item in item_iter { push(item); upd_idx_n(new_item_idx) }
add_rest(m, item_iter) ==
    IF item_iter = <<>> \/ m.st # "ok" THEN m
    ELSE add_rest(upd_idx_n(push(m, Head(item_iter)), MLen(m)), Tail(item_iter))

add_iters(m, iters) ==
    LET item_iter == filter_map(iters)
        old_len == MLen(m)
        one == IF old_len = 0 THEN push(m, Head(item_iter)) ELSE m
        left == IF old_len = 0 THEN Tail(item_iter) ELSE item_iter
    IN IF old_len >= 2 THEN add_rest(m, item_iter)
       ELSE IF old_len = 0 /\ item_iter = <<>> THEN m
       ELSE IF left = <<>> THEN one
       ELSE add_rest(upd_idx_2(push(one, Head(left))), Tail(left))

\* Merged::build: MergedIter::new(cmp) and add_iters(iters)
build(c, stable, iters) == add_iters(MergedIter_new(c, stable), iters)

RECURSIVE replace_loop(_, _)
\* for new_item_idx in idx..len { upd_idx_n(new_item_idx) }
replace_loop(m, idx) ==
    IF idx >= MLen(m) \/ m.st # "ok" THEN m
    ELSE replace_loop(upd_idx_n(m, idx), idx + 1)

\* mutant: only the first two pairs are compared under the new comparator
replace_cmp_no_rescan(m, c) ==
    LET new == [m EXCEPT !.cmp = c, !.min_idx = 0, !.next_min_idx = 1]
    IN IF MLen(new) < 2 THEN new ELSE upd_idx_2(new)

replace_cmp(m, c) ==
    LET new == [m EXCEPT !.cmp = c, !.min_idx = 0, !.next_min_idx = 1]
    IN IF MLen(new) < 2 THEN new ELSE replace_loop(upd_idx_2(new), 2)

\* let (item, rest) = swap_remove(0); res.push(item); res.extend(rest)
take_last(m) ==
    LET last == get(m, 0)
    IN [m EXCEPT !.peek_iters = swap_remove(@, 0),
                 !.vec = (@ \o <<last[1]>>) \o drain(last[2])]

RECURSIVE into_vec_loop(_)
into_vec_loop(m) ==
    IF m.st # "ok" THEN m
    ELSE IF m.min_idx >= MLen(m) THEN Oob(m)
    ELSE LET min == get(m, m.min_idx)
             nx == iter_next(min[2])
             p == pop_min(m)
             q == [p EXCEPT !.vec = Append(@, p.res)]
         IN IF nx.item # None
            THEN into_vec_loop(update_after_peek(
                     [m EXCEPT !.vec = Append(@, min[1]),
                               !.peek_iters[m.min_idx + 1] = <<nx.item[1], nx.iter>>]))
            ELSE IF MLen(q) = 1 THEN take_last(q)
            ELSE into_vec_loop(find_next_min(q))

MergedIter_into_vec(m) ==
    CASE MLen(m) = 0 -> m
      [] MLen(m) = 1 -> take_last(m)
      [] OTHER -> into_vec_loop(m)

MergedIter_peek(m) ==
    IF m.min_idx >= MLen(m) THEN None ELSE Some(get(m, m.min_idx)[1])

\* next_if(|item| item <= t)
MergedIter_next_if(m, t) ==
    IF MLen(m) = 0 THEN m
    ELSE IF m.min_idx >= MLen(m) THEN Oob(m)
    ELSE IF ~(get(m, m.min_idx)[1].val <= t) THEN m
    ELSE LET x == produce_next(m)
         IN IF x.st = "ok" THEN [x EXCEPT !.ret = Some(x.res)] ELSE x

MergedIter_next(m) ==
    IF MLen(m) = 0 THEN m
    ELSE LET x == produce_next(m)
         IN IF x.st = "ok" THEN [x EXCEPT !.ret = Some(x.res)] ELSE x

\* mutant: the storage is returned without its first pair
break_up_lost_pair(m) == IF m.peek_iters = <<>> THEN <<>> ELSE Tail(m.peek_iters)

break_up(m) == m.peek_iters

----------------------------------------------------------------------------
(* The user of a MergedIter.  caller.iters are the inputs it owns, of      *)
(* which the first caller.given were handed to the merger; out is what     *)
(* next, next_if and into_vec have returned, in order.                     *)

engine_vars == <<inputs, comparator, faults, origin, item, iter, heap, len,
                 initial_len, drops, polls, out, unwound, ret, vec, phase,
                 panicked, sawNone, assertOk, inBounds, holeOk, dropOk, clones, afterNone,
                 taken>>

NoInputs == [i \in 1..MaxInputs |-> <<>>]

Fields(m) ==
    [peek_iters |-> m.peek_iters, cmp |-> m.cmp, min_idx |-> m.min_idx,
     next_min_idx |-> m.next_min_idx, STABLE_TIE_BREAKING |-> m.STABLE_TIE_BREAKING]

\* the inputs from .. to of the caller as iterators
Handed(ins, from, to) == [k \in 1..(to - from + 1) |-> IntoIter(ins, from + k - 1)]

\* Merged::new(iters)[.arbitrary_tie_breaking()][.with_cmp(c)].build() over
\* the first k inputs
InitMergedOf(ks, cs) ==
    /\ InitWith(NoInputs, DefaultComparator, NoFaults)
    /\ NoSizeHint /\ NoArray /\ NoHole
    /\ \E ins \in MergedInputs, stable \in BOOLEAN, c \in cs, k \in ks :
         LET m == build(c, stable, Handed(ins, 1, k))
         IN /\ merged = Fields(m)
            /\ caller = [iters |-> ins, given |-> k, out |-> <<>>, ret |-> None,
                         vec |-> <<>>, st |-> "ok", op |-> "build",
                         assertOk |-> m.assertOk, cmps |-> 0, mark |-> 0,
                         broken |-> <<>>]

InitMergedWith(ks) == InitMergedOf(ks, Cmps)

InitMerged == InitMergedWith(0..MaxIters)

InitBuilt == InitMergedWith({MaxIters})

\* Merged::new(iters)[.arbitrary_tie_breaking()].build(): the merger starts
\* with Ord::cmp (build for Item: Ord)
InitBuiltOrd == InitMergedOf({MaxIters}, {"asc"})

\* what an access outside the storage can come to: a panic where the access
\* is checked (debug_assertions, forbid_unsafe, test), and where it is not,
\* undefined behaviour, after which nothing is known about the call's result
Outcomes(m) ==
    IF m.st = "ok" THEN {[st |-> "ok", ret |-> m.ret]}
    ELSE {[st |-> "panic", ret |-> None]}
         \cup {[st |-> "ub", ret |-> r] :
                 r \in {None} \cup {Some([val |-> v, src |-> 0]) : v \in Vals}}

\* the call returned (or did not): the merger and what the caller saw
Land(m, opname, emitted) ==
    /\ merged' = Fields(m)
    /\ \E o \in Outcomes(m) :
         caller' = [caller EXCEPT !.st = o.st, !.ret = o.ret, !.op = opname,
                                  !.out = IF m.st = "ok" THEN @ \o emitted ELSE @,
                                  !.vec = IF m.st = "ok" THEN m.vec ELSE <<>>,
                                  !.assertOk = @ /\ m.assertOk]
    /\ UNCHANGED <<engine_vars, sized, array, slice>>

Call_next ==
    /\ caller.st = "ok"
    /\ LET x == MergedIter_next(MCtx(merged))
       IN Land(x, "next", IF x.ret = None THEN <<>> ELSE <<x.ret[1]>>)

Call_next_if ==
    /\ caller.st = "ok"
    /\ \E t \in Vals :
         LET x == MergedIter_next_if(MCtx(merged), t)
         IN Land(x, "next_if", IF x.ret = None THEN <<>> ELSE <<x.ret[1]>>)

Call_peek ==
    /\ caller.st = "ok"
    /\ Land([MCtx(merged) EXCEPT !.ret = MergedIter_peek(MCtx(merged))], "peek", <<>>)

Call_into_vec ==
    /\ caller.st = "ok"
    /\ LET x == MergedIter_into_vec(MCtx(merged))
       IN Land(x, "into_vec", x.vec)

Call_add_iter ==
    /\ caller.st = "ok"
    /\ caller.given < MaxIters
    /\ LET x == add_iter(MCtx(merged), IntoIter(caller.iters, caller.given + 1))
       IN /\ merged' = Fields(x)
          /\ \E o \in Outcomes(x) :
               caller' = [caller EXCEPT !.st = o.st, !.ret = None, !.op = "add_iter",
                                        !.given = @ + 1, !.vec = <<>>,
                                        !.assertOk = @ /\ x.assertOk]
    /\ UNCHANGED <<engine_vars, sized, array, slice>>

Call_add_iters ==
    /\ caller.st = "ok"
    /\ \E n \in 0..(MaxIters - caller.given) :
         LET x == add_iters(MCtx(merged),
                            Handed(caller.iters, caller.given + 1, caller.given + n))
         IN /\ merged' = Fields(x)
            /\ \E o \in Outcomes(x) :
                 caller' = [caller EXCEPT !.st = o.st, !.ret = None, !.op = "add_iters",
                                          !.given = @ + n, !.vec = <<>>,
                                          !.assertOk = @ /\ x.assertOk]
    /\ UNCHANGED <<engine_vars, sized, array, slice>>

\* the caller goes on with the MergedIter that replace_cmp returns
Call_replace_cmp ==
    /\ caller.st = "ok"
    /\ caller.cmps < MaxCmps
    /\ \E c \in Cmps :
         LET x == replace_cmp(MCtx(merged), c)
         IN /\ merged' = Fields(x)
            /\ \E o \in Outcomes(x) :
                 caller' = [caller EXCEPT !.st = o.st, !.ret = None, !.op = "replace_cmp",
                                          !.cmps = @ + 1, !.mark = Len(caller.out),
                                          !.vec = <<>>, !.assertOk = @ /\ x.assertOk]
    /\ UNCHANGED <<engine_vars, sized, array, slice>>

\* break_up(self) consumes the merger
Call_break_up ==
    /\ caller.st = "ok"
    /\ caller' = [caller EXCEPT !.st = "broken_up", !.ret = None, !.op = "break_up",
                                !.vec = <<>>, !.broken = break_up(MCtx(merged))]
    /\ UNCHANGED merged
    /\ UNCHANGED <<engine_vars, sized, array, slice>>

NextMerged ==
    \/ Call_next \/ Call_next_if \/ Call_peek \/ Call_into_vec
    \/ Call_add_iter \/ Call_add_iters

SpecMerged == InitMerged /\ [][NextMerged]_vars

\* the merger is built over all the inputs and then only consumed
NextOrder == Call_next \/ Call_into_vec

SpecOrder == InitBuilt /\ [][NextOrder]_vars

NextReplace == Call_next \/ Call_replace_cmp

SpecReplace == InitBuiltOrd /\ [][NextReplace]_vars

NextBreakUp == Call_next \/ Call_break_up

SpecBreakUp == InitBuilt /\ [][NextBreakUp]_vars

----------------------------------------------------------------------------
(* Claims about MergedIter *)

Heads(s) == [k \in 1..Len(s.peek_iters) |-> s.peek_iters[k][1]]

\* the head at position i (from 0) is not greater than any head
MinHead(s, i) ==
    \A j \in 1..Len(s.peek_iters) :
        call_cmp(s.cmp, s.peek_iters[i + 1][1], s.peek_iters[j][1]) # "Greater"

\* C11: when add_iter has handed a non-empty input to the merger, min_idx is
\* a position of the storage and the head there is a minimum of all heads
C11_AddIterKeepsMin ==
    (caller.op = "add_iter" /\ caller.iters[caller.given] # <<>>)
        => /\ merged.min_idx < Len(merged.peek_iters)
           /\ MinHead(merged, merged.min_idx)

\* how many of the items of seq came from input i
RECURSIVE TakenFrom(_, _)
TakenFrom(seq, i) ==
    IF seq = <<>> THEN 0
    ELSE (IF Head(seq).src = i THEN 1 ELSE 0) + TakenFrom(Tail(seq), i)

\* the head of input i once the items of seq were taken, as the caller can
\* work it out from the inputs it handed over
HeadAfter(seq, i) ==
    LET n == TakenFrom(seq, i)
    IN IF n < Len(caller.iters[i])
       THEN Some([val |-> caller.iters[i][n + 1], src |-> i]) ELSE None

\* the k-th emitted item was the head of its input, no live head was
\* smaller, and in stable mode no equal head belonged to an earlier input
EmittedInOrder(k) ==
    LET before == SubSeq(caller.out, 1, k - 1)
        x == caller.out[k]
    IN /\ HeadAfter(before, x.src) = Some(x)
       /\ \A i \in 1..caller.given :
            LET h == HeadAfter(before, i)
            IN h # None =>
                 /\ call_cmp(merged.cmp, x, h[1]) # "Greater"
                 /\ (merged.STABLE_TIE_BREAKING /\ call_cmp(merged.cmp, x, h[1]) = "Equal")
                        => x.src <= i

\* min_idx and next_min_idx are two positions of the storage, the head at
\* min_idx is a minimum, the head at next_min_idx a minimum of the others,
\* and in stable mode each is the leftmost such position
IndicesRight(s) ==
    LET n == Len(s.peek_iters)
        c(a, b) == call_cmp(s.cmp, s.peek_iters[a + 1][1], s.peek_iters[b + 1][1])
    IN /\ s.min_idx < n /\ s.next_min_idx < n /\ s.min_idx # s.next_min_idx
       /\ \A j \in 0..(n - 1) : c(s.min_idx, j) # "Greater"
       /\ \A j \in 0..(n - 1) \ {s.min_idx} : c(s.next_min_idx, j) # "Greater"
       /\ s.STABLE_TIE_BREAKING =>
            /\ \A j \in 0..(s.min_idx - 1) : c(j, s.min_idx) = "Greater"
            /\ \A j \in 0..(s.next_min_idx - 1) \ {s.min_idx} :
                   c(j, s.next_min_idx) = "Greater"

\* C12: every item that next() or into_vec() has emitted was not greater
\* than the head of any live input and, with stable tie-breaking, came from
\* the earliest input among equal heads; no call ends in a panic, and while
\* two or more inputs are live min_idx and next_min_idx are the (leftmost)
\* minimum and the (leftmost) minimum of the others
C12_MergedOrdering ==
    /\ caller.st = "ok"
    /\ caller.assertOk
    /\ \A k \in 1..Len(caller.out) : EmittedInOrder(k)
    /\ Len(merged.peek_iters) >= 2 => IndicesRight(merged)

\* into_vec() has returned three or more items of a stable merge in which
\* two inputs had equal items, after at least one next()
C12_Witness ==
    /\ caller.op = "into_vec"
    /\ merged.STABLE_TIE_BREAKING
    /\ Len(caller.vec) >= 3
    /\ Len(caller.out) > Len(caller.vec)
    /\ \E a, b \in 1..Len(caller.out) :
         caller.out[a].val = caller.out[b].val /\ caller.out[a].src # caller.out[b].src

\* the pairs of a storage, each with the number of times it occurs
PairCount(s, pr) == Cardinality({k \in 1..Len(s) : s[k] = pr})

\* C15: replace_cmp.  A replace_cmp(new_cmp) call at any point of the stream
\* keeps exactly the (head, iterator) pairs that were live, and every item
\* emitted after it is minimal among the live heads under new_cmp and, in
\* stable mode, comes from the earliest input among the heads equal under
\* new_cmp; no later call ends in a panic.
C15_ReplaceCmp ==
    [][/\ caller'.cmps = caller.cmps + 1 =>
            /\ Len(merged'.peek_iters) = Len(merged.peek_iters)
            /\ \A k \in 1..Len(merged.peek_iters) :
                  PairCount(merged'.peek_iters, merged.peek_iters[k])
                      = PairCount(merged.peek_iters, merged.peek_iters[k])
            /\ merged'.STABLE_TIE_BREAKING = merged.STABLE_TIE_BREAKING
       /\ caller'.cmps >= 1 =>
            /\ caller'.st = "ok" /\ caller'.assertOk
            /\ Len(caller'.out) > Len(caller.out) => EmittedInOrder(Len(caller.out))'
            /\ (Len(merged.peek_iters) >= 2 => IndicesRight(merged))']_vars

\* the comparator was replaced after one or more items were emitted in an
\* order the new comparator would not have chosen, and two or more items
\* were emitted since by a stable merger
C15_Witness ==
    /\ caller.cmps = 1
    /\ caller.mark >= 1
    /\ Len(caller.out) >= caller.mark + 2
    /\ merged.STABLE_TIE_BREAKING
    /\ \E k \in 1..caller.mark : ~EmittedInOrder(k)
    /\ \E a, b \in (caller.mark + 1)..Len(caller.out) :
         caller.out[a].val = caller.out[b].val /\ caller.out[a].src # caller.out[b].src

\* the values of the items of seq that came from input i, in order
ValuesFrom(seq, i) ==
    LET sel == SelectSeq(seq, LAMBDA r : r.src = i)
    IN [k \in 1..Len(sel) |-> sel[k].val]

\* how often the value v occurs in a sequence of values
RECURSIVE Occurs(_, _)
Occurs(q, v) ==
    IF q = <<>> THEN 0 ELSE (IF Head(q) = v THEN 1 ELSE 0) + Occurs(Tail(q), v)

RECURSIVE OccursIn(_, _, _)
\* how often v occurs in the first n inputs of the caller
OccursIn(ins, n, v) ==
    IF n = 0 THEN 0 ELSE Occurs(ins[n], v) + OccursIn(ins, n - 1, v)

RECURSIVE OccursLeft(_, _)
\* how often v occurs among the heads and the remaining items of a storage
OccursLeft(s, v) ==
    IF s = <<>> THEN 0
    ELSE (IF Head(s)[1].val = v THEN 1 ELSE 0) + Occurs(Head(s)[2].rest, v)
         + OccursLeft(Tail(s), v)

\* C16: break-up completeness.  After any number of next() calls, break_up()
\* returns a storage with exactly one (head, rest) pair for every input that
\* is not fully consumed and none for a consumed one; the items emitted from
\* an input followed by its returned head and rest are that input, and the
\* emitted items, the heads and the rests together are the multiset-union of
\* the inputs.
C16_BreakUp ==
    caller.st = "broken_up" =>
        /\ \A i \in 1..caller.given :
              LET mine == {k \in 1..Len(caller.broken) : caller.broken[k][2].src = i}
                  got == ValuesFrom(caller.out, i)
              IN IF Len(got) = Len(caller.iters[i])
                 THEN mine = {} /\ got = caller.iters[i]
                 ELSE /\ Cardinality(mine) = 1
                      /\ \A k \in mine :
                            /\ caller.broken[k][1].src = i
                            /\ (got \o <<caller.broken[k][1].val>>) \o caller.broken[k][2].rest
                                   = caller.iters[i]
        /\ \A k \in 1..Len(caller.broken) : caller.broken[k][2].src \in 1..caller.given
        /\ \A v \in Vals :
              Occurs([k \in 1..Len(caller.out) |-> caller.out[k].val], v)
                  + OccursLeft(caller.broken, v)
                = OccursIn(caller.iters, caller.given, v)

\* break_up() after three or more next() calls returned two or more pairs,
\* one with a non-empty rest, while another input was fully consumed
C16_Witness ==
    /\ caller.st = "broken_up"
    /\ Len(caller.out) >= 3
    /\ Len(caller.broken) >= 2
    /\ \E k \in 1..Len(caller.broken) : caller.broken[k][2].rest # <<>>
    /\ \E i \in 1..caller.given :
         caller.iters[i] # <<>> /\ Len(ValuesFrom(caller.out, i)) = Len(caller.iters[i])

----------------------------------------------------------------------------
(* merge_iter.rs: MergeIter::size_hint.  It reads len and, through         *)
(* map_items, the size_hint of the iterator of every live slot, in heap    *)
(* order; nothing else of the engine.  A live iterator is modelled by the  *)
(* hint it reports, (lo, hi), and by n, the number of items it will still  *)
(* yield.  usize is a word of UsizeBits bits.                              *)

UsizeBits == 3
MaxHinted == 2

USIZE_MAX == 2^UsizeBits - 1

\* the bounds an iterator may report, near both ends of the word
HintVals == {0, 1, 2, USIZE_MAX - 1, USIZE_MAX}

\* how many items an iterator may have left; more than USIZE_MAX stands for
\* iterators such as repeat(x)
Remaining == {0, 1, USIZE_MAX - 1, USIZE_MAX + 1}

Hinted == [n : Remaining, lo : HintVals, hi : {None} \cup {Some(h) : h \in HintVals}]

\* k live iterators in heap order; one peeked item each
HintedSets(k) == [1..k -> Hinted]

\* mutant: the sum wraps around instead of saturating
saturating_add_wrapping(a, b) == (a + b) % (USIZE_MAX + 1)

\* usize::saturating_add
saturating_add(a, b) == IF a + b > USIZE_MAX THEN USIZE_MAX ELSE a + b

\* mutant: the overflow is not reported
overflowing_add_silent(a, b) == <<(a + b) % (USIZE_MAX + 1), FALSE>>

\* usize::overflowing_add: the wrapped sum and whether it wrapped
overflowing_add(a, b) == <<(a + b) % (USIZE_MAX + 1), a + b > USIZE_MAX>>

\* Option::unwrap_or
unwrap_or(o, default) == IF o = None THEN default ELSE o[1]

\* bool::then_some
then_some(b, v) == IF b THEN Some(v) ELSE None

\* it.iter.size_hint()
iter_size_hint(it) == <<it.lo, it.hi>>

RECURSIVE size_hint_items(_, _, _)
\* map_items(|it| ..) from index i on: a holds the closure's captures min,
\* max and no_max
size_hint_items(a, its, i) ==
    IF i > Len(its) THEN a
    ELSE LET h == iter_size_hint(its[i])
             it_min == h[1]
             it_max == h[2]
             sum == overflowing_add(a.max, unwrap_or(it_max, USIZE_MAX))
         IN size_hint_items([min |-> saturating_add(a.min, it_min),
                             max |-> sum[1],
                             no_max |-> a.no_max \/ sum[2]], its, i + 1)

\* MergeIter::size_hint: (min, max)
size_hint(its) ==
    LET a == size_hint_items([min |-> Len(its), max |-> Len(its), no_max |-> FALSE], its, 1)
    IN <<a.min, then_some(~a.no_max, a.max)>>

\* an engine in any state it can be in as far as size_hint can tell
InitSizeHint ==
    /\ InitWith(NoInputs, DefaultComparator, NoFaults)
    /\ NoMergedIter
    /\ \E k \in 0..MaxHinted :
         \E its \in HintedSets(k) : sized = [its |-> its, ret |-> None]
    /\ NoArray /\ NoHole

\* merged.size_hint()
Call_size_hint ==
    /\ sized.ret = None
    /\ sized' = [sized EXCEPT !.ret = Some(size_hint(sized.its))]
    /\ UNCHANGED <<engine_vars, merged, caller, array, slice>>

NextSizeHint == Call_size_hint

SpecSizeHint == InitSizeHint /\ [][NextSizeHint]_vars

RECURSIVE SumOf(_, _)
\* the sum over its of f, in the integers
SumOf(f(_), its) == IF its = <<>> THEN 0 ELSE f(Head(its)) + SumOf(f, Tail(its))

LowerOf(it) == it.lo

UpperOf(it) == unwrap_or(it.hi, 0)

LeftOf(it) == it.n

\* the iterator's own hint is sound
SoundHint(it) == it.lo <= it.n /\ (it.hi # None => it.n <= it.hi[1])

\* how many values next() will still return: the peeked items and what the
\* live iterators have left
ActualRemaining(its) == Len(its) + SumOf(LeftOf, its)

\* C19: size_hint arithmetic.  The lower bound size_hint() returns is len
\* plus the live iterators' lower bounds, or usize::MAX if that is more; the
\* upper bound is len plus the live iterators' upper bounds if every one of
\* them reports one and the sum fits a usize, and is absent otherwise.
C19_SizeHintArithmetic ==
    sized.ret # None =>
        LET its == sized.its
            lower == Len(its) + SumOf(LowerOf, its)
            upper == Len(its) + SumOf(UpperOf, its)
            bounded == \A i \in 1..Len(its) : its[i].hi # None
        IN /\ sized.ret[1][1] = (IF lower > USIZE_MAX THEN USIZE_MAX ELSE lower)
           /\ sized.ret[1][2] = (IF bounded /\ upper <= USIZE_MAX THEN Some(upper) ELSE None)

\* two inputs over 0..usize::MAX after build: one item peeked from each,
\* usize::MAX - 1 left in each; size_hint() is (usize::MAX, None)
C19_Witness ==
    /\ Len(sized.its) = 2
    /\ \A i \in 1..2 :
         /\ sized.its[i].lo = USIZE_MAX - 1
         /\ sized.its[i].hi = Some(USIZE_MAX - 1)
    /\ sized.ret = Some(<<USIZE_MAX, None>>)

\* C20: size_hint soundness.  If the hint of every live iterator is sound,
\* the lower bound size_hint() returns is at most the number of values next()
\* will still return, and that number is at most the upper bound when one is
\* returned.
C20_SizeHintSound ==
    (sized.ret # None /\ \A i \in 1..Len(sized.its) : SoundHint(sized.its[i])) =>
        /\ sized.ret[1][1] <= ActualRemaining(sized.its)
        /\ sized.ret[1][2] # None => ActualRemaining(sized.its) <= sized.ret[1][2][1]

\* sound hints whose upper bounds wrap around the word to a value below what
\* is left, and the lower bounds saturate: no upper bound is returned
C20_Witness ==
    /\ Len(sized.its) = 2
    /\ \A i \in 1..2 : SoundHint(sized.its[i]) /\ sized.its[i].hi # None
    /\ Len(sized.its) + SumOf(UpperOf, sized.its) > USIZE_MAX
    /\ ActualRemaining(sized.its) > USIZE_MAX
    /\ sized.ret # None
    /\ sized.ret[1][1] = USIZE_MAX
    /\ sized.ret[1][2] = None

----------------------------------------------------------------------------
(* merge_iter.rs: MergeIter::count.  It pops the live slots from the last  *)
(* heap entry to the first and adds 1 + iter.count() for each; it reads    *)
(* nothing else of the engine.  The additions are plain usize additions:   *)
(* they panic where overflow is checked and wrap where it is not.          *)

MaxCounted == 3

\* how many items an iterator that count() can exhaust may have left
Countable == {0, 1, 2, USIZE_MAX - 2, USIZE_MAX - 1, USIZE_MAX}

\* k live iterators of exactly known length, in heap order
CountedSets(k) == [1..k -> {[n |-> c, lo |-> c, hi |-> Some(c)] : c \in Countable}]

\* iter.count() of an iterator with n items left
iter_count(it) == it.n

RECURSIVE count_loop_head_only(_, _)
\* mutant: only the peeked items are counted
count_loop_head_only(its, a) ==
    IF its = <<>> THEN a
    ELSE LET outer == overflowing_add(a.count, 1)
         IN count_loop_head_only(SubSeq(its, 1, Len(its) - 1),
                                 [count |-> outer[1], overflow |-> a.overflow \/ outer[2]])

RECURSIVE count_loop(_, _)
\* while let Some((_, iter)) = pop_last_item() { count += 1 + iter.count() }
\* a holds count and whether an addition has overflowed so far
count_loop(its, a) ==
    IF its = <<>> THEN a
    ELSE LET inner == overflowing_add(1, iter_count(its[Len(its)]))
             outer == overflowing_add(a.count, inner[1])
         IN count_loop(SubSeq(its, 1, Len(its) - 1),
                       [count |-> outer[1],
                        overflow |-> a.overflow \/ inner[2] \/ outer[2]])

\* MergeIter::count: what the call can come to.  An overflowing addition
\* panics in a build with overflow checks and wraps in one without.
count(its) ==
    LET a == count_loop(its, [count |-> 0, overflow |-> FALSE])
    IN IF a.overflow
       THEN {[st |-> "panic", count |-> 0], [st |-> "ok", count |-> a.count]}
       ELSE {[st |-> "ok", count |-> a.count]}

InitCount ==
    /\ InitWith(NoInputs, DefaultComparator, NoFaults)
    /\ NoMergedIter
    /\ \E k \in 0..MaxCounted :
         \E its \in CountedSets(k) : sized = [its |-> its, ret |-> None]
    /\ NoArray /\ NoHole

\* merged.count(): self is consumed, whether count returns or panics
Call_count ==
    /\ sized.ret = None
    /\ \E r \in count(sized.its) : sized' = [its |-> <<>>, ret |-> Some(r)]
    /\ UNCHANGED <<engine_vars, merged, caller, array, slice>>

NextCount == Call_count

SpecCount == InitCount /\ [][NextCount]_vars

\* C21 as stated: count() returns the sum over the live slots of 1 + the
\* number of items left in the slot's iterator, which is the number of values
\* repeated next() would have returned.
C21_CountIsSum ==
    [][Call_count =>
          sized'.ret = Some([st |-> "ok", count |-> ActualRemaining(sized.its)])]_vars

\* C21, amended: count() consumes the engine; if the sum over the live slots
\* of 1 + the number of items left in the slot's iterator fits a usize,
\* count() returns it, and it is the number of values repeated next() would
\* have returned; if it does not fit, count() panics or returns the sum
\* modulo 2^(word size).
C21_Count ==
    [][Call_count =>
          LET total == ActualRemaining(sized.its)
          IN /\ sized'.its = <<>>
             /\ IF total <= USIZE_MAX
                THEN sized'.ret = Some([st |-> "ok", count |-> total])
                ELSE sized'.ret \in {Some([st |-> "panic", count |-> 0]),
                                     Some([st |-> "ok", count |-> total % (USIZE_MAX + 1)])}]_vars

\* count() has returned usize::MAX - 1, which two inputs over 0..usize::MAX
\* make it return where additions wrap, and so do smaller inputs
C21_Witness ==
    /\ sized.its = <<>>
    /\ sized.ret = Some([st |-> "ok", count |-> USIZE_MAX - 1])

----------------------------------------------------------------------------
(* storage/array.rs: ArrayStorage<CAP, IT> before it is pinned and built.  *)
(* storage is the array of CAP slots, of which the first len are           *)
(* initialised; an uninitialised slot is None.  res is what the latest     *)
(* call came to, op and arg which call it was and the input it was given.  *)

MaxCap == 2

\* PeekIter::new_from_iter: the first item is polled; None for an empty input
new_from_iter(it) ==
    IF it = <<>> THEN None ELSE Some([item |-> Head(it), iter |-> Tail(it)])

\* ArrayStorage::new
ArrayStorage_new(cap) ==
    [CAP |-> cap, storage |-> [i \in 1..cap |-> None], len |-> 0, res |-> None,
     op |-> "none", arg |-> <<>>,
     drops |-> [i \in 1..cap |-> 0], pin |-> "unpinned"]

\* mutant: the storage counts as full one slot too late; storage[len] is
\* then indexed outside the array
try_push_off_by_one(a, it) ==
    LET peek_iter == new_from_iter(it)
    IN IF peek_iter # None
       THEN IF a.len > a.CAP THEN [a EXCEPT !.res = Some("ArrayCapacityOverflow")]
            ELSE IF a.len + 1 \in DOMAIN a.storage
                 THEN [a EXCEPT !.storage[a.len + 1] = peek_iter, !.len = a.len + 1,
                                !.res = Some("Ok")]
                 ELSE [a EXCEPT !.res = Some("panic")]
       ELSE [a EXCEPT !.res = Some("Ok")]

\* ArrayStorage::try_push; storage[len] of the source is storage[len + 1] here
try_push(a, it) ==
    LET peek_iter == new_from_iter(it)
    IN IF peek_iter # None
       THEN IF a.len >= a.CAP THEN [a EXCEPT !.res = Some("ArrayCapacityOverflow")]
            ELSE [a EXCEPT !.storage[a.len + 1] = peek_iter, !.len = a.len + 1,
                           !.res = Some("Ok")]
       ELSE [a EXCEPT !.res = Some("Ok")]

\* ArrayStorage::push: try_push(iter).unwrap()
ArrayStorage_push(a, it) ==
    LET r == try_push(a, it)
    IN IF r.res = Some("Ok") THEN r ELSE [r EXCEPT !.res = Some("panic")]

InitArray ==
    /\ InitWith(NoInputs, DefaultComparator, NoFaults)
    /\ NoMergedIter /\ NoSizeHint /\ NoHole
    /\ \E cap \in 0..MaxCap : array = ArrayStorage_new(cap)

\* storage.try_push(it)
Call_try_push ==
    /\ array.pin = "unpinned"
    /\ \E it \in SeqsUpTo(MaxLen) :
         array' = [try_push(array, it) EXCEPT !.op = "try_push", !.arg = it]
    /\ UNCHANGED <<engine_vars, merged, caller, sized, slice>>

\* storage.push(it); the storage is still there when the panic was caught
Call_push ==
    /\ array.pin = "unpinned"
    /\ \E it \in SeqsUpTo(MaxLen) :
         array' = [ArrayStorage_push(array, it) EXCEPT !.op = "push", !.arg = it]
    /\ UNCHANGED <<engine_vars, merged, caller, sized, slice>>

NextArray == Call_try_push \/ Call_push

SpecArray == InitArray /\ [][NextArray]_vars

\* what a call on a full storage comes to when the storage overflows
Overflowed == IF array'.op = "try_push" THEN Some("ArrayCapacityOverflow") ELSE Some("panic")

\* C22 as stated: on a full ArrayStorage try_push returns
\* ArrayCapacityOverflow for every pushed input and push panics, and len and
\* the stored slots are unchanged.
C22_FullRejectsEvery ==
    [][array.len = array.CAP =>
          /\ array'.len = array.len
          /\ array'.storage = array.storage
          /\ array'.res = Overflowed]_vars

\* C22, amended: on a full ArrayStorage try_push returns
\* ArrayCapacityOverflow and push panics for every non-empty pushed input;
\* an empty input is accepted (Ok, no panic), as nothing is stored for it;
\* either way len and the stored slots are unchanged.
C22_CapacityOverflow ==
    [][array.len = array.CAP =>
          /\ array'.len = array.len
          /\ array'.storage = array.storage
          /\ array'.res = (IF array'.arg = <<>> THEN Some("Ok") ELSE Overflowed)]_vars

\* try_push has returned ArrayCapacityOverflow on a storage whose two slots
\* are taken
C22_Witness ==
    /\ array.CAP >= 2
    /\ array.len = array.CAP
    /\ array.op = "try_push"
    /\ array.res = Some("ArrayCapacityOverflow")

----------------------------------------------------------------------------
(* Polling of the inputs by the heap engine *)

\* the input slot s was created from
InputOf(s) == inputs[origin[s]]

\* C23: polling discipline.  Every input that has a slot was polled once when
\* it was inserted and build polls nothing; a next() (or next_if()) that
\* returns an item polls the input whose head it returns, once, and no other
\* input; a call that returns None polls nothing; the poll that finds an
\* input exhausted is its last, and the call that makes it removes its slot.
C23_PollingDiscipline ==
    [][/\ phase = "storage" => (\A s \in DOMAIN polls : polls[s] = 1) /\ polls' = polls
       /\ (phase = "ready" /\ phase' = "ready") =>
            IF out' # out
            THEN LET f == heap[0]
                     v == out'[Len(out')]
                 IN /\ v.src = origin[f] /\ v.val = item[f]
                    /\ polls' = [polls EXCEPT ![f] = @ + 1]
                    /\ (iter[f] = <<>>) = (f \notin LiveSlots')
                    /\ LiveSlots' \ {f} = LiveSlots \ {f}
            ELSE polls' = polls
       /\ phase' = "ready" =>
            (\A s \in DOMAIN polls :
                /\ polls[s] <= Len(InputOf(s)) + 1
                /\ (polls[s] = Len(InputOf(s)) + 1) = (s \notin LiveSlots))']_vars

\* next() has polled an input of two items for the third time and removed
\* its slot, while another input is live that was polled twice
C23_Witness ==
    /\ phase = "ready"
    /\ \E s \in DOMAIN polls : polls[s] = 3 /\ Len(InputOf(s)) = 2 /\ s \notin LiveSlots
    /\ \E s \in LiveSlots : polls[s] = 2
    /\ ret # None

----------------------------------------------------------------------------
(* merge_iter/builder.rs: max_by *)

MaxFirst(c) == [kind |-> "MaxFirst", inner |-> c]

\* mutant: the builder keeps the comparator it had
min_by_ignored(b, c) == b

\* Builder::min_by: the comparator is replaced, the tie breaker is kept
min_by(b, c) == [b EXCEPT !.comparator = c]

\* mutant: the comparator is not wrapped
max_by_unwrapped(b, c) == min_by(b, c)

\* Builder::max_by
max_by(b, c) == min_by(b, MaxFirst(c))

\* VecStorage::into_builder: Builder::new(storage, ByOrd, InsertionOrder)
into_builder == [comparator |-> [kind |-> "ByOrd"], tie_breaker |-> [kind |-> "InsertionOrder"]]

\* the comparator Builder::build hands to Heap::new
build_comparator(b) == Chain(b.comparator, b.tie_breaker)

\* ...into_builder().max_by(ByOrd).build()
InitMaxBy ==
    /\ \E ins \in InputSets :
         InitWith(ins, build_comparator(max_by(into_builder, [kind |-> "ByOrd"])), NoFaults)
    /\ NoMergedIter /\ NoSizeHint /\ NoArray /\ NoHole

SpecMaxBy == InitMaxBy /\ [][NextCmp]_vars

\* the item references the comparator can be called with
Refs == {[val |-> v, addr |-> a] : v \in Vals, a \in 1..MaxInputs}

\* C24: max-by composition.  An engine built with max_by(C) and the default
\* tie breaker orders by Chain(MaxFirst(C), InsertionOrder) (compared on
\* every pair of item references when the engine is built), where
\* MaxFirst(C)(a, b) = C(b, a) and the tie breaker is not reversed; every
\* item next() returns is a maximum of the live heads under C, and comes from
\* the earliest-inserted of the live inputs whose heads equal it under C.
C24_MaxByComposition ==
    [][/\ comparator = Chain(MaxFirst([kind |-> "ByOrd"]), [kind |-> "InsertionOrder"])
       /\ phase = "storage" => \A a \in Refs, b \in Refs :
            /\ compare(comparator.first, a, b) = ByOrd(b, a)
            /\ compare(comparator, a, b) =
                 (IF ByOrd(b, a) = "Equal" THEN InsertionOrder(a, b) ELSE ByOrd(b, a))
       /\ out' # out =>
            LET v == out'[Len(out')]
                r == [val |-> v.val, addr |-> v.src]
            IN /\ v.src \in LiveInputs
               /\ v.val = HeadRef(v.src).val
               /\ \A i \in LiveInputs :
                    /\ ByOrd(HeadRef(i), r) # "Greater"
                    /\ ByOrd(HeadRef(i), r) = "Equal" => v.src <= i]_vars

\* three equal maximal heads were returned from inputs 1, 1 and 2, then a
\* smaller one from input 2, and an input is still live
C24_Witness ==
    /\ comparator.first.kind = "MaxFirst"
    /\ phase = "ready"
    /\ Len(out) = 4
    /\ \A k \in 1..3 : out[k].val = MaxVal
    /\ out[1].src = 1 /\ out[2].src = 1 /\ out[3].src = 2
    /\ out[4].val < MaxVal /\ out[4].src = 2
    /\ Cardinality(LiveInputs) >= 1

----------------------------------------------------------------------------
(* comparators/tie_breaker.rs: ReverseInsertionOrder *)

\* ...into_builder().min_by(c1).tie_breaker(ReverseInsertionOrder).build()
InitReverse ==
    /\ \E ins \in InputSets, c1 \in Primaries :
         InitWith(ins, Chain(c1, [kind |-> "ReverseInsertionOrder"]), NoFaults)
    /\ NoMergedIter /\ NoSizeHint /\ NoArray /\ NoHole

SpecReverse == InitReverse /\ [][NextCmp]_vars

\* the live inputs whose heads equal the reference r under the primary
\* comparator
EqualHeads(r) ==
    {i \in LiveInputs : compare(comparator.first, HeadRef(i), r) = "Equal"}

\* C25: reverse insertion-order tie-break.  With the tie breaker
\* ReverseInsertionOrder, whenever next() returns an item while several live
\* inputs have heads equal to it under the primary comparator, the item is
\* the head of the latest-inserted of those inputs.
C25_ReverseTieBreak ==
    [][out' # out =>
         LET v == out'[Len(out')]
             r == [val |-> v.val, addr |-> v.src]
         IN /\ v.src \in EqualHeads(r)
            /\ v.val = HeadRef(v.src).val
            /\ \A i \in EqualHeads(r) : i <= v.src]_vars

\* three equal items were returned from inputs 4, 4 and 2 while input 1 had
\* the same head all along and still has it
C25_Witness ==
    /\ comparator.next.kind = "ReverseInsertionOrder"
    /\ phase = "ready"
    /\ Len(out) = 3
    /\ \A k \in 1..3 : out[k].val = out[1].val
    /\ out[1].src = 4 /\ out[2].src = 4 /\ out[3].src = 2
    /\ 1 \in LiveInputs /\ Emitted(1) = 0 /\ HeadRef(1).val = out[1].val

----------------------------------------------------------------------------
(* End-to-end runs on the inputs the tests use *)

\* tests/iter_test.rs, "basic merging"
S1_Inputs == <<<<1, 3, 5>>, <<2, 4, 6>>>>

\* convenience.rs, tests
S2_Inputs == <<<<3, 6>>, <<1, 4>>, <<2, 5>>>>

\* tests/iter_test.rs, "duplicate values"
S6_Inputs == <<<<0, 0, -1>>, <<0, 0, 1>>, <<0, 0, 0>>>>

\* src/tests/data.rs
S7_Inputs == <<<<10, 8, 6, 4, 2>>, <<1, 3, 5, 7, 9>>>>

Scenarios == {S1_Inputs, S2_Inputs, S6_Inputs, S7_Inputs}

\* Builder::tie_breaker: the tie breaker is replaced, the comparator is kept
tie_breaker(b, tb) == [b EXCEPT !.tie_breaker = tb]

\* the builders of the tests: min_by(ByOrd) or max_by(ByOrd), any tie breaker
Builders ==
    {tie_breaker(b, tb) : b \in {min_by(into_builder, [kind |-> "ByOrd"]),
                                 max_by(into_builder, [kind |-> "ByOrd"])},
                         tb \in TieBreakers}

\* each test vector is merged under every comparator and tie breaker
InitScenario ==
    /\ \E ins \in Scenarios, b \in Builders : InitWith(ins, build_comparator(b), NoFaults)
    /\ NoMergedIter /\ NoSizeHint /\ NoArray /\ NoHole

SpecScenario == InitScenario /\ [][NextLive]_vars

\* the items returned so far, and the inputs they came from (input 0 of the
\* source is input 1 here)
OutVals == [k \in 1..Len(out) |-> out[k].val]

OutSrcs == [k \in 1..Len(out) |-> out[k].src]

MaxByNatural == build_comparator(max_by(into_builder, [kind |-> "ByOrd"]))

\* the merge of ins under c has returned a prefix of expected, and all of it
\* once next() has returned None
Produces(ins, c, expected) ==
    (inputs = ins /\ comparator = c) =>
        /\ Len(out) <= Len(expected)
        /\ OutVals = SubSeq(expected, 1, Len(out))
        /\ sawNone => Len(out) = Len(expected)

Produced(ins, c, expected) ==
    inputs = ins /\ comparator = c /\ sawNone /\ OutVals = expected

\* C26 as stated: merging [[3,6],[1,4],[2,5]] with max-by natural order and
\* the default tie breaker produces [6,5,4,3,2,1].
C26_S2_Descending ==
    (inputs = S2_Inputs /\ comparator = MaxByNatural /\ sawNone)
        => OutVals = <<6, 5, 4, 3, 2, 1>>

\* C26: scenario S2.  Merging [[3,6],[1,4],[2,5]] with max-by natural order
\* and the default tie breaker produces [3,6,2,5,1,4]: each item is the
\* greatest of the heads live when it is returned.
C26_S2 == Produces(S2_Inputs, MaxByNatural, <<3, 6, 2, 5, 1, 4>>)

C26_Witness == Produced(S2_Inputs, MaxByNatural, <<3, 6, 2, 5, 1, 4>>)

\* C27 as stated: merging [[0,0,-1],[0,0,1],[0,0,0]] with the default
\* configuration produces [0,0,0,0,0,0,0,-1,1], the first three items coming
\* from input 0.
C27_S6_ZerosFirst ==
    (inputs = S6_Inputs /\ comparator = DefaultComparator /\ sawNone)
        => /\ OutVals = <<0, 0, 0, 0, 0, 0, 0, -1, 1>>
           /\ SubSeq(OutSrcs, 1, 3) = <<1, 1, 1>>

\* C27: scenario S6.  Merging [[0,0,-1],[0,0,1],[0,0,0]] with the default
\* configuration produces [0,0,-1,0,0,0,0,0,1]; the first three items are
\* input 0 in full, then come the two zeros of input 1, the three of input
\* 2, and the 1 of input 1.
C27_S6 ==
    /\ Produces(S6_Inputs, DefaultComparator, <<0, 0, -1, 0, 0, 0, 0, 0, 1>>)
    /\ (inputs = S6_Inputs /\ comparator = DefaultComparator) =>
         OutSrcs = SubSeq(<<1, 1, 1, 2, 2, 3, 3, 3, 2>>, 1, Len(out))

C27_Witness ==
    /\ Produced(S6_Inputs, DefaultComparator, <<0, 0, -1, 0, 0, 0, 0, 0, 1>>)
    /\ OutSrcs = <<1, 1, 1, 2, 2, 3, 3, 3, 2>>

\* C28 as stated: merging [[10,8,6,4,2],[1,3,5,7,9]] with the default
\* configuration produces [10,1,3,5,7,8,6,4,2,9].
C28_S7_TenFirst ==
    (inputs = S7_Inputs /\ comparator = DefaultComparator /\ sawNone)
        => OutVals = <<10, 1, 3, 5, 7, 8, 6, 4, 2, 9>>

\* C28: scenario S7.  Merging [[10,8,6,4,2],[1,3,5,7,9]] with the default
\* configuration produces [1,3,5,7,9,10,8,6,4,2]: the smaller head is
\* returned at each step, so the sorted input goes first and the descending
\* one follows in its own order.
C28_S7 == Produces(S7_Inputs, DefaultComparator, <<1, 3, 5, 7, 9, 10, 8, 6, 4, 2>>)

C28_Witness == Produced(S7_Inputs, DefaultComparator, <<1, 3, 5, 7, 9, 10, 8, 6, 4, 2>>)

----------------------------------------------------------------------------
(* internal/heap.rs: the order of the heap entries *)

\* a caller that takes items and whole inputs, in any order
NextHeap == Build \/ next \/ AsIters \/ AsUnorderedIters

\* the inputs of the heaps: every arrangement of up to MaxInputs heads with
\* one more item behind one of them, and fewer heads with more items behind
\* them; the slots are those of the non-empty inputs whichever inputs were
\* empty, so the empty ones come last
HeapInputs ==
    {ins \in InputSets :
       /\ SumLen(ins, MaxInputs) <= MaxInputs + 1
       /\ \A i \in 1..(MaxInputs - 1) : ins[i] = <<>> => ins[i + 1] = <<>>}

\* ...into_builder().tie_breaker(c2).build()
InitHeap ==
    /\ \E ins \in HeapInputs, c2 \in TieBreakers :
         InitWith(ins, Chain([kind |-> "ByOrd"], c2), NoFaults)
    /\ NoMergedIter /\ NoSizeHint /\ NoArray /\ NoHole

SpecHeap == InitHeap /\ [][NextHeap]_vars

\* the child indices of heap index i that exist
Children(i) == {c \in {2 * i, 2 * i + 1} : c < len}

----------------------------------------------------------------------------
(* Panics of user code and the slots the heap refers to *)

\* what the user code of one run does: a comparator that may panic on any
\* call (PanicyCmp), one iterator whose destructor panics (PanickyDropIter),
\* or one iterator whose next() panics at one of the polls made after the one
\* on insertion (PanickyNext)
PanicFaults(st) ==
    {CmpPanics}
    \cup {[NoFaults EXCEPT !.drop_panics = {s}] : s \in DOMAIN st.item}
    \cup UNION {{[NoFaults EXCEPT !.next_panics = {<<s, k>>}] : k \in 2..(Len(st.iter[s]) + 2)}
               : s \in DOMAIN st.item}

\* the inputs of the engines that run with panicking user code: up to
\* MaxInputs heads, and fewer heads with items behind them
PanicInputs == {ins \in HeapInputs : SumLen(ins, MaxInputs) <= MaxInputs}

InitPanics ==
    /\ \E ins \in PanicInputs : \E f \in PanicFaults(from_iter(ins)) :
         InitWith(ins, DefaultComparator, f)
    /\ NoMergedIter /\ NoSizeHint /\ NoArray /\ NoHole

\* a caller that catches the panics and goes on using the engine
NextPanics == Build \/ next \/ AsIters \/ AsUnorderedIters \/ IntoVec

SpecPanics == InitPanics /\ [][NextPanics]_vars

\* the slots that were neither destroyed nor handed out to the caller
Live(s) == drops[s] = 0 /\ \A k \in 1..Len(taken) : taken[k].addr # s

\* C29: bijection invariant.  In every state between two engine operations,
\* the states left by a comparator, next() or destructor panic that unwound
\* out of build, next, as_iters, as_unordered_iters or into_vec included,
\* the entries heap[0..len] are pairwise distinct, each refers to a slot that
\* was neither destroyed nor handed out, and every such slot is referred to
\* by one of them; once build or into_vec has unwound or into_vec has
\* returned, the engine is gone and no such slot is left.
C29_Bijection ==
    /\ phase = "ready" =>
         /\ \A i, j \in 0..(len - 1) : heap[i] = heap[j] => i = j
         /\ \A i \in 0..(len - 1) : heap[i] \in DOMAIN item /\ Live(heap[i])
         /\ \A s \in DOMAIN item : Live(s) => \E i \in 0..(len - 1) : heap[i] = s
    /\ phase \in {"dropped", "collected"} => \A s \in DOMAIN item : ~Live(s)

\* the panic of an iterator's next() has unwound out of MergeIter::next on
\* an engine that had returned items and handed out an input, and the heap
\* still refers to two or more slots
C29_Witness ==
    /\ phase = "ready"
    /\ panicked
    /\ faults.next_panics # {}
    /\ out # <<>>
    /\ taken # <<>>
    /\ len >= 2

----------------------------------------------------------------------------
(* Destructors *)

\* a caller that catches the panics, goes on using the engine and drops it
NextDrops ==
    Build \/ next \/ next_if \/ AsIters \/ AsUnorderedIters \/ IntoVec \/ DropEngine

\* the user code that makes destructors run during a panic: a comparator
\* that may panic on any call, or one iterator whose destructor panics
DropFaults(st) ==
    {CmpPanics} \cup {[NoFaults EXCEPT !.drop_panics = {s}] : s \in DOMAIN st.item}

InitDrops ==
    /\ \E ins \in PanicInputs : \E f \in DropFaults(from_iter(ins)) :
         InitWith(ins, DefaultComparator, f)
    /\ NoMergedIter /\ NoSizeHint /\ NoArray /\ NoHole

SpecDrops == InitDrops /\ [][NextDrops]_vars

----------------------------------------------------------------------------
(* internal/hole.rs: a Hole on a slice of its own, as in tests::hole *)

\* const ITEMS: usize = 4
ITEMS == 4

\* the longest sequence of move_to calls on one Hole
MaxMoves == 3

\* array::from_fn(|idx| Item { value: idx, .. }): the values are the indices
InitHole ==
    /\ InitWith(NoInputs, DefaultComparator, NoFaults)
    /\ NoMergedIter /\ NoSizeHint /\ NoArray
    /\ \E n \in 2..ITEMS :
         slice = [heap |-> [i \in 0..(n - 1) |-> i], len |-> n, limit |-> n,
                  hole |-> [pos |-> 0, elt |-> 0 - 1],
                  assertOk |-> TRUE, inBounds |-> TRUE, holeOk |-> TRUE,
                  orig |-> [i \in 0..(n - 1) |-> i], path |-> <<>>, st |-> "none"]

\* let mut hole = Hole::new(ptr, p0)
Call_Hole_new ==
    /\ slice.st = "none"
    /\ \E p0 \in 0..(slice.len - 1) :
         slice' = [HoleNew(slice, p0) EXCEPT !.path = <<p0>>, !.st = "open"]
    /\ UNCHANGED <<engine_vars, merged, caller, sized, array>>

\* hole.move_to(p), p not the position of the hole
Call_move_to ==
    /\ slice.st = "open"
    /\ Len(slice.path) <= MaxMoves
    /\ \E p \in 0..(slice.len - 1) \ {slice.hole.pos} :
         slice' = [HoleMoveTo(slice, p) EXCEPT !.path = Append(@, p)]
    /\ UNCHANGED <<engine_vars, merged, caller, sized, array>>

\* the Hole goes out of scope, on return or while a panic unwinds
Call_Hole_drop ==
    /\ slice.st = "open"
    /\ slice' = [HoleDrop(slice) EXCEPT !.st = "closed"]
    /\ UNCHANGED <<engine_vars, merged, caller, sized, array>>

NextHole == Call_Hole_new \/ Call_move_to \/ Call_Hole_drop

SpecHole == InitHole /\ [][NextHole]_vars

\* the slice holds every original value exactly once
Permutation ==
    /\ DOMAIN slice.heap = DOMAIN slice.orig
    /\ \A v \in DOMAIN slice.orig :
         Cardinality({i \in DOMAIN slice.heap : slice.heap[i] = slice.orig[v]}) = 1

\* data[p(i-1)] = old data[pi] for i = 1..k, and data[pk] = old data[p0]
Shifted ==
    /\ \A i \in 1..(Len(slice.path) - 1) :
         slice.heap[slice.path[i]] = slice.orig[slice.path[i + 1]]
    /\ slice.heap[slice.path[Len(slice.path)]] = slice.orig[slice.path[1]]

\* no position is taken twice by the Hole
DistinctPositions ==
    \A i, j \in 1..Len(slice.path) : i # j => slice.path[i] # slice.path[j]

\* C32 (as amended): Hole restoration.  On a slice of distinct values,
\* Hole::new(data, p0), then any moves move_to(p1), ..., move_to(pk), each to
\* a position other than the current one, then scope exit after any prefix
\* of the moves: the slice is a permutation of the original, data[pk] is the
\* old data[p0], every position the Hole never took is untouched, and when
\* p0, ..., pk are pairwise distinct data[p(i-1)] is the old data[pi] for
\* i = 1..k.
C32_HoleRestoration ==
    slice.st = "closed" =>
        /\ Permutation
        /\ slice.inBounds /\ slice.assertOk
        /\ slice.heap[slice.path[Len(slice.path)]] = slice.orig[slice.path[1]]
        /\ \A i \in DOMAIN slice.heap :
             (\A j \in 1..Len(slice.path) : slice.path[j] # i) => slice.heap[i] = slice.orig[i]
        /\ DistinctPositions => Shifted

\* tests::hole: Hole::new(ptr, 1), move_to(3), move_to(0), scope exit:
\* the values are now 1, 3, 2, 0
C32_Witness ==
    /\ slice.st = "closed"
    /\ slice.path = <<1, 3, 0>>
    /\ slice.heap = [i \in 0..3 |-> <<1, 3, 2, 0>>[i + 1]]

\* C32 as stated: the placement data[p(i-1)] = old data[pi], data[pk] = old
\* data[p0] after every sequence of moves, a position taken twice included
C32_ShiftedAlways ==
    slice.st = "closed" => Permutation /\ Shifted

----------------------------------------------------------------------------
(* internal/heap.rs: the steps inside pop_front_item and into_vec *)

\* every context Heap::into_vec passes through from the contexts of S
RECURSIVE into_vec_reach(_, _)
into_vec_reach(S, acc) ==
    IF S = {} THEN acc
    ELSE LET live == {x \in S : x.st = "ok" /\ x.stage # "done"}
             n == UNION {into_vec_step(x) : x \in live}
         IN into_vec_reach(n \ (acc \cup S), acc \cup S)

\* the contexts of into_vec(self) called on the engine as it is
IntoVecContexts == into_vec_reach({[Cur EXCEPT !.stage = "entry", !.vec = <<>>]}, {})

\* the head that slot f gets when its iterator is polled
NewHead(x, f) == [val |-> Head(x.iter[f]), addr |-> f]

\* x -> y is the step that polls slot f, gets an item, and compares the new
\* head of f with the head of s
FastPath(x, y, f, s) ==
    LET rs == answers(comparator, NewHead(x, f), Ref(x, s))
    IN /\ (\A r \in rs : is_le(r)) => y.heap = x.heap /\ y.len = x.len
       /\ y.heap # x.heap =>
            /\ \E r \in rs : is_gt(r)
            /\ f = x.heap[0] /\ s = x.heap[1]
            /\ y.len = x.len
            /\ y.heap[0] = s
            /\ x.len = 2 => y.heap[1] = f
            /\ \E i \in 1..(x.len - 1) : y.heap[i] = f
            /\ \A i \in DOMAIN x.heap : i >= x.len => y.heap[i] = x.heap[i]

\* the same step outside the two-input loop of into_vec: a greater new head
\* is exchanged with the runner-up
Exchange(x, y, f, s) ==
    (\A r \in answers(comparator, NewHead(x, f), Ref(x, s)) : is_gt(r)) => y.heap[0] = s

\* C33: no-sift fast path.  In pop_front_item and in each iteration of the
\* loops of into_vec, with len >= 2, when the polled front input yields a new
\* head h' that the comparator does not put after the head of the runner-up,
\* heap and len are left as they were; heap[0] and heap[1] are exchanged
\* (and the new heap[1] sifted down within heap[1..len] when len >= 3) only
\* when h' is strictly greater, and outside the two-input loop of into_vec
\* they are exchanged whenever it is.
C33_NoSiftFastPath ==
    (phase = "ready" /\ len >= 2) =>
        /\ iter[heap[0]] # <<>> =>
             \A y \in pop_front_item(Cur) : y.st = "ok" =>
                 /\ FastPath(Cur, y, heap[0], heap[1])
                 /\ Exchange(Cur, y, heap[0], heap[1])
        /\ \A x \in IntoVecContexts :
             (x.st = "ok" /\ x.stage \in {"heap", "two"} /\ x.iter[x.fst] # <<>>) =>
                 \A y \in into_vec_step(x) : y.st = "ok" =>
                     /\ FastPath(x, y, x.fst, x.snd)
                     /\ x.stage = "heap" => Exchange(x, y, x.fst, x.snd)

\* next() has returned the head of the first input and exchanged heap[0]
\* and heap[1], three inputs are left; the next call would take the fast
\* path, and so does the first iteration of into_vec from here
C33_Witness ==
    /\ phase = "ready" /\ len >= 3 /\ Len(out) = 1
    /\ heap[0] # 0 /\ out[1].src = origin[0]
    /\ iter[heap[0]] # <<>>
    /\ \E y \in pop_front_item(Cur) : y.st = "ok" /\ y.heap = heap
    /\ \E x \in IntoVecContexts :
         /\ x.st = "ok" /\ x.stage = "heap" /\ x.iter[x.fst] # <<>>
         /\ \E y \in into_vec_step(x) : y.st = "ok" /\ y.heap = x.heap

----------------------------------------------------------------------------
(* internal/heap.rs: pop_front_iter against pop_front_item *)

\* the engine as it is, but with the input of the slot in front exhausted
FrontExhausted == [Cur EXCEPT !.iter[heap[0]] = <<>>]

\* len and heap[0..len] of a context
Shape(y) == <<y.len, [i \in 0..(y.len - 1) |-> y.heap[i]]>>

\* the shapes that a call can leave when it returns
Shapes(S) == {Shape(y) : y \in {z \in S : z.st = "ok"}}

\* C34: pop_front_iter rebalancing.  From every state of a built engine
\* with len >= 1, pop_front_iter leaves the same len and the same
\* heap[0..len] as pop_front_item leaves from that state when the input in
\* front reports exhaustion: len is one less; with len >= 2 the old heap[1]
\* is at index 0; with len >= 3 the old heap[len-1] has taken index 1 and
\* been sifted down, so heap[1..len-1] holds the old heap[2..len].
C34_SameRebalancing ==
    (phase = "ready" /\ len >= 1) =>
        /\ Shapes(pop_front_iter(Cur)) = Shapes(pop_front_item(FrontExhausted))
        /\ Shapes(pop_front_iter(Cur)) # {}
        /\ \A sh \in Shapes(pop_front_iter(Cur)) :
             /\ sh[1] = len - 1
             /\ len >= 2 => sh[2][0] = heap[1]
             /\ len >= 3 => {sh[2][i] : i \in 1..(len - 2)} = {heap[i] : i \in 2..(len - 1)}
             /\ len = 3 => sh[2][1] = heap[2]

\* a poll of as_iters() has taken the input in front out of four, and three
\* are left for the next poll
C34_Witness ==
    /\ phase = "ready" /\ initial_len = 4 /\ len = 3
    /\ out = <<>>
    /\ Len(taken) = 1 /\ taken[1].by = "as_iters"
    /\ heap[0] # taken[1].addr

----------------------------------------------------------------------------
(* internal/heap.rs: the two-input loop of into_vec *)

\* x is a context at the head of the while loop of the len() == 2 block
InTwoInputLoop(x) == x.st = "ok" /\ x.stage = "two"

\* first.advance() returns None in this iteration, which ends the loop
Exhausted(x) ==
    LET a == advance(x, x.fst) IN a.st = "ok" /\ a.adv = None

\* the engine's destructor, run on the context y that a panic unwinds from,
\* destroys the slots f and s once each and no slot twice
DropsBothOnce(y, f, s) ==
    LET z == clear(y)
    IN /\ z.st = "panic" /\ z.len = 0 /\ z.dropOk
       /\ y.drops[f] = 0 /\ y.drops[s] = 0
       /\ z.drops[f] = 1 /\ z.drops[s] = 1
       /\ \A t \in DOMAIN z.drops : z.drops[t] <= 1

\* C35: the two-input phase of into_vec.  In every iteration of the loop
\* that into_vec runs while exactly two inputs remain, len is 2 and
\* heap[0..2] refers to the two slots the locals first and second refer to,
\* in this or the other order; an iteration that does not find first
\* exhausted writes neither heap nor len; and when the comparator or the
\* polled input panics in it, the engine's destructor destroys both slots
\* exactly once.
C35_TwoInputPhase ==
    /\ phase = "ready" =>
          \A x \in IntoVecContexts : InTwoInputLoop(x) =>
              /\ x.len = 2 /\ x.fst # x.snd
              /\ {x.heap[0], x.heap[1]} = {x.fst, x.snd}
              /\ ~Exhausted(x) =>
                   \A y \in into_vec_step(x) :
                       /\ y.heap = x.heap /\ y.len = x.len
                       /\ y.st = "ok" => y.stage = "two"
                       /\ y.st # "ok" => DropsBothOnce(y, x.fst, x.snd)
    /\ (phase = "dropped" /\ panicked /\ faults.drop_panics = {}) =>
          \A s \in DOMAIN drops :
              drops[s] = IF \E k \in 1..Len(taken) : taken[k].addr = s THEN 0 ELSE 1

\* into_vec was called on an engine of two inputs; it swapped its locals
\* after the first item, and the next() of the input it then polled
\* panicked; both slots were destroyed as the panic unwound
C35_Witness ==
    /\ phase = "dropped" /\ panicked
    /\ initial_len = 2 /\ out = <<>> /\ taken = <<>>
    /\ \E s \in DOMAIN polls : <<s, polls[s]>> \in faults.next_panics
    /\ \A s \in DOMAIN polls : polls[s] >= 2
    /\ \A s \in DOMAIN drops : drops[s] = 1

----------------------------------------------------------------------------
(* An input whose next() panics, under next and next_if *)

\* one iterator whose next() panics at one of the polls made after the one
\* on insertion (PanickyNext)
NextPanicFaults(st) ==
    UNION {{[NoFaults EXCEPT !.next_panics = {<<s, k>>}] : k \in 2..(Len(st.iter[s]) + 2)}
           : s \in DOMAIN st.item}

InitNextPanic ==
    /\ \E ins \in HeapInputs : \E f \in NextPanicFaults(from_iter(ins)) :
         InitWith(ins, DefaultComparator, f)
    /\ NoMergedIter /\ NoSizeHint /\ NoArray /\ NoHole

\* a caller that catches the panic and goes on with next and next_if
NextNextPanic == Build \/ next \/ next_if

SpecNextPanic == InitNextPanic /\ [][NextNextPanic]_vars

\* in this step the next() of the input of the slot in front panicked
AdvancePanicked ==
    /\ phase = "ready" /\ len >= 1
    /\ panicked'
    /\ polls'[heap[0]] = polls[heap[0]] + 1
    /\ <<heap[0], polls'[heap[0]]>> \in faults.next_panics

\* C36: an advance panic leaves the engine unchanged.  When the next() of
\* the polled input panics inside MergeIter::next or next_if, len,
\* heap[0..len], every head and every iterator are as before the call,
\* nothing is emitted and nothing destroyed, so the heap ordering still
\* holds in the state the panic leaves, with the old head still in front.
C36_AdvancePanic ==
    [][AdvancePanicked =>
          /\ len' = len /\ heap' = heap
          /\ item' = item /\ iter' = iter /\ origin' = origin
          /\ out' = out /\ drops' = drops /\ unwound' = unwound
          /\ phase' = "ready"
          /\ HeapOrdered' /\ FrontIsMin']_vars

\* next() has returned items; then the next() of the input in front
\* panicked, three or more inputs being live
C36_Witness ==
    /\ phase = "ready" /\ panicked /\ len >= 3
    /\ out # <<>>
    /\ <<heap[0], polls[heap[0]]>> \in faults.next_panics
    /\ iter[heap[0]] # <<>>

----------------------------------------------------------------------------
(* The debug assertions of the engine under an arbitrary comparator *)

\* a caller of an engine whose comparator answers anything: every operation
\* that compares (heapify in build, sift-down in next, as_iters and into_vec)
NextAsserts == Build \/ next \/ AsIters \/ IntoVec

SpecAsserts == InitByFunc /\ [][NextAsserts]_vars

\* C37: internal assertions never fire.  Whatever the comparator answers,
\* in heapify, sift-down, pop_front_item, pop_front_iter and into_vec the
\* comparator is never given the same slot on both sides, Hole::get and
\* Hole::move_to are never called with the position of the hole,
\* sift_down_element is entered with 1 <= pos < len only, and first, second,
\* dec_len and pop_last are called with len >= 1, len >= 2, len != 0 and
\* len != 0; nor does any of these operations, started from a state that
\* was reached, fail one of them on any path.
C37_AssertionsHold ==
    /\ assertOk
    /\ phase = "storage" => \A x \in heapify_storage(try_into_builder(Cur)) : x.assertOk
    /\ phase = "ready" =>
         /\ \A x \in pop_front_item(Cur) \cup pop_front_iter(Cur) : x.assertOk
         /\ \A x \in IntoVecContexts : x.assertOk

\* the comparator has answered against every order: an engine of MaxInputs
\* inputs gave out an item, then an input to as_iters, and then the rest to
\* into_vec, and no assertion failed
C37_Witness ==
    /\ assertOk
    /\ phase = "collected"
    /\ initial_len = MaxInputs
    /\ out # <<>> /\ taken # <<>>
    /\ Len(vec) >= 2
    /\ \E k \in 1..(Len(vec) - 1) : vec[k].src > vec[k + 1].src

----------------------------------------------------------------------------
(* storage/array.rs: an engine over a pinned ArrayStorage *)

\* mutant: the ArrayStorage keeps its len (len.get() for len.replace(0))
ArrayStorage_into_builder_keeps_len(a) ==
    [array |-> a,
     item |-> [s \in 0..(a.len - 1) |-> a.storage[s + 1][1].item],
     iter |-> [s \in 0..(a.len - 1) |-> a.storage[s + 1][1].iter],
     heap |-> [i \in 0..(a.len - 1) |-> i],
     len |-> a.len]

\* ArrayStorage::into_builder: what is left in the ArrayStorage, and the
\* InternalArrayStorage handed to the builder: heap.add(i).write(storage.add(i))
\* (slot s of the engine is storage[s] of the source, storage[s + 1] here)
ArrayStorage_into_builder(a) ==
    [array |-> [a EXCEPT !.len = 0],
     item |-> [s \in 0..(a.len - 1) |-> a.storage[s + 1][1].item],
     iter |-> [s \in 0..(a.len - 1) |-> a.storage[s + 1][1].iter],
     heap |-> [i \in 0..(a.len - 1) |-> i],
     len |-> a.len]

\* impl Drop for ArrayStorage: the first len slots are destroyed
ArrayStorage_drop(a) ==
    [a EXCEPT !.len = 0,
              !.drops = [i \in DOMAIN a.drops |-> IF i <= a.len THEN a.drops[i] + 1 ELSE a.drops[i]]]

\* let storage = pin!(storage); let m = storage.build(): into_builder() and
\* then Builder::build on the InternalArrayStorage
Call_array_build ==
    /\ array.pin = "unpinned"
    /\ phase = "storage"
    /\ LET b == ArrayStorage_into_builder(array)
           e == [Cur EXCEPT !.item = b.item, !.iter = b.iter,
                            !.origin = [s \in DOMAIN b.item |-> s + 1],
                            !.drops = [s \in DOMAIN b.item |-> 0],
                            !.polls = [s \in DOMAIN b.item |-> 1],
                            !.heap = b.heap, !.len = b.len, !.limit = b.len]
       IN /\ \E x \in heapify_storage(e) : Commit(x) /\ panicked' = (x.st # "ok")
          /\ array' = [b.array EXCEPT !.pin = "pinned"]
          /\ inputs' = [i \in 1..b.len |-> <<b.item[i - 1]>> \o b.iter[i - 1]]
          /\ initial_len' = b.len
    /\ phase' = "ready"
    /\ UNCHANGED <<comparator, faults, out, ret, vec, sawNone, clones, afterNone,
                   taken, merged, caller, sized, slice>>

\* the ArrayStorage goes out of scope; the engine that borrowed it, if one
\* was built, is gone by then
Drop_ArrayStorage ==
    /\ array.pin # "dropped"
    /\ phase \in {"storage", "dropped", "collected"}
    /\ array' = [ArrayStorage_drop(array) EXCEPT !.pin = "dropped"]
    /\ UNCHANGED <<engine_vars, merged, caller, sized, slice>>

NextOwnership ==
    \/ Call_try_push \/ Call_push \/ Call_array_build
    \/ next \/ IntoVec \/ DropEngine
    \/ Drop_ArrayStorage

SpecOwnership == InitArray /\ [][NextOwnership]_vars

\* the slots of the ArrayStorage that a push has initialised
Pushed == {i \in DOMAIN array.storage : array.storage[i] # None}

\* how many times the engine has destroyed storage[i]
EngineDrops(i) == IF (i - 1) \in DOMAIN drops THEN drops[i - 1] ELSE 0

\* C38: ownership hand-over of the inline storage.  into_builder leaves the
\* ArrayStorage with len 0 and gives the engine the previous len and a heap
\* whose entry i refers to slot i, the i-th pushed input, for every i < len;
\* so over every sequence of pushes, an optional build, engine operations,
\* the drop of the engine and at last the drop of the ArrayStorage, no slot
\* is destroyed by both or twice by either, no slot that was never pushed is
\* destroyed, and in the end each pushed slot was destroyed exactly once.
C38_OwnershipHandOver ==
    /\ array.pin = "unpinned" =>
         LET b == ArrayStorage_into_builder(array)
         IN /\ b.array.len = 0 /\ b.len = array.len
            /\ Pushed = 1..array.len
            /\ \A i \in 0..(b.len - 1) :
                 /\ b.heap[i] = i
                 /\ array.storage[i + 1] = Some([item |-> b.item[i], iter |-> b.iter[i]])
    /\ array.pin # "unpinned" => array.len = 0
    /\ \A i \in DOMAIN array.drops :
         /\ array.drops[i] + EngineDrops(i) <= 1
         /\ i \notin Pushed => array.drops[i] = 0
    /\ \A s \in DOMAIN drops : (s + 1) \in Pushed
    /\ array.pin = "dropped" =>
         \A i \in Pushed : array.drops[i] + EngineDrops(i) = 1

\* two inputs were pushed, the engine was built, gave out an item and was
\* dropped with a live slot, and then the ArrayStorage was dropped: the engine
\* destroyed both slots, the ArrayStorage none
C38_Witness ==
    /\ array.pin = "dropped" /\ phase = "dropped"
    /\ Cardinality(Pushed) = 2
    /\ out # <<>>
    /\ \A i \in Pushed : EngineDrops(i) = 1 /\ array.drops[i] = 0

====
